---- MODULE Spec2Model ----
(***************************************************************************)
(* A model of firedantic's document-model layer: the identifier validator, *)
(* the record mapper, the save / delete / reload / get / find operations   *)
(* and the set-up of composite indexes and TTL policies of the blocking    *)
(* (firedantic._sync) and the non-blocking (firedantic._async)             *)
(* implementations over a path-addressed store and its admin backend.      *)
(*                                                                         *)
(* Python strings are sequences of code points, so that concatenation      *)
(* (prefix + collection), containment ("/" in id), startswith / endswith   *)
(* and the UTF-8 length are computed the way the code computes them.       *)
(***************************************************************************)
EXTENDS Integers, Sequences, FiniteSets, TLC

VARIABLES
    legacy,     \* firedantic.configurations.CONFIGURATIONS (read by firedantic._sync)
    registry,   \* configuration.config: name -> ConfigItem (read by firedantic._async)
    docs,       \* the backend store: the documents that exist
    staged,     \* the writes staged on the caller's open transaction
    inst,       \* the record instance the application holds in memory
    ops,        \* the number of operations the application has performed
    last,       \* the last operation: its arguments, its outcome, the state before it
    pin,        \* input of the pure function under check (a document id)
    pout,       \* its result
    admin,      \* the Firestore admin backend: composite indexes and TTL states
    tasks       \* the non-blocking calls suspended at a backend request

vars == <<legacy, registry, docs, staged, inst, ops, last, pin, pout, admin, tasks>>

----------------------------------------------------------------------------
(* Strings *)

\* code points of the characters the identifier rules name
SLASH == 47
UNDERSCORE == 95
DOT == 46
\* other characters of the identifier alphabet: "a", U+00E5, U+1F600
CH_A == 97
CH_ARING == 229
CH_GRIN == 128512

\* None, where the code holds Optional[str]
None == <<-1>>

\* the width of one code point in str.encode("utf-8")
Utf8Width(c) ==
    IF c < 128 THEN 1
    ELSE IF c < 2048 THEN 2
    ELSE IF c < 65536 THEN 3
    ELSE 4

RECURSIVE Utf8Len(_)
\* len(document_id.encode("utf-8"))
Utf8Len(s) ==
    IF Len(s) = 0 THEN 0
    ELSE IF Len(s) = 1 THEN Utf8Width(s[1])
    ELSE LET h == Len(s) \div 2
         IN  Utf8Len(SubSeq(s, 1, h)) + Utf8Len(SubSeq(s, h + 1, Len(s)))

\* c in s
Contains(s, c) == \E i \in 1..Len(s) : s[i] = c

\* s.startswith("__")
StartsWithDunder(s) ==
    Len(s) >= 2 /\ s[1] = UNDERSCORE /\ s[2] = UNDERSCORE

\* s.endswith("__")
EndsWithDunder(s) ==
    Len(s) >= 2 /\ s[Len(s) - 1] = UNDERSCORE /\ s[Len(s)] = UNDERSCORE

\* n copies of the character c
Rep(c, n) == [i \in 1..n |-> c]

----------------------------------------------------------------------------
(* Identifier validator *)

MaxIdBytes == 1500
MinDunderLen == 4

\* _validate_document_id with the byte limit applied to the number of characters
ValidateCountsChars(document_id) ==
    IF Len(document_id) > MaxIdBytes THEN "too_long"
    ELSE IF Contains(document_id, SLASH) THEN "slash"
    ELSE IF StartsWithDunder(document_id) /\ EndsWithDunder(document_id)
            /\ Len(document_id) >= MinDunderLen THEN "dunder"
    ELSE IF document_id \in {<<DOT>>, <<DOT, DOT>>} THEN "dots"
    ELSE IF document_id = <<>> THEN "empty"
    ELSE "ok"

\* _validate_document_id: "ok", or the rule whose InvalidDocumentID is raised
ValidateDocumentId(document_id) ==
    IF Utf8Len(document_id) > MaxIdBytes THEN "too_long"
    ELSE IF Contains(document_id, SLASH) THEN "slash"
    ELSE IF StartsWithDunder(document_id) /\ EndsWithDunder(document_id)
            /\ Len(document_id) >= MinDunderLen THEN "dunder"
    ELSE IF document_id \in {<<DOT>>, <<DOT, DOT>>} THEN "dots"
    ELSE IF document_id = <<>> THEN "empty"
    ELSE "ok"

----------------------------------------------------------------------------
(* Configuration *)

LBRACE == 123

STR_DEFAULT == <<40, 100, 101, 102, 97, 117, 108, 116, 41>>      \* "(default)"

\* a string the code treats as false: None or ""
Falsy(s) == s = None \/ s = <<>>

\* a connection handle is named by the project whose database it talks to
NoClient == "none"
NoProject == "none"

\* os.environ.get("GOOGLE_CLOUD_PROJECT") or None: the variable is not set
EnvProject == NoProject

ConfigItem(prefix, project, client, async_client) ==
    [prefix |-> prefix, project |-> project,
     client |-> client, async_client |-> async_client]

\* no configuration item
NoItem == ConfigItem(<<>>, NoProject, NoClient, NoClient)

\* Configuration.__init__: the registry holds a "(default)" entry
InitialRegistry ==
    [n \in {STR_DEFAULT} |-> ConfigItem(<<>>, EnvProject, NoClient, NoClient)]

\* CONFIGURATIONS = {}
InitialLegacy == [kind |-> "unset", db |-> NoClient, prefix |-> <<>>]

\* Configuration._normalize_project
NormalizeProject(project) ==
    IF project # NoProject THEN project ELSE EnvProject

\* a registration that keeps the entry a name already has
ConfigurationAddKeepsFirst(reg, name, project, prefix, client, async_client) ==
    [n \in DOMAIN reg \cup {name} |->
        IF n \in DOMAIN reg THEN reg[n]
        ELSE ConfigItem(prefix, NormalizeProject(project), client, async_client)]

\* Configuration.add: the entry under name is replaced
ConfigurationAdd(reg, name, project, prefix, client, async_client) ==
    [n \in DOMAIN reg \cup {name} |->
        IF n = name
        THEN ConfigItem(prefix, NormalizeProject(project), client, async_client)
        ELSE reg[n]]

\* configure(client, prefix): registers the client as "(default)"
ConfigureRegistry(reg, kind, client, prefix) ==
    IF kind = "async"
    THEN ConfigurationAdd(reg, STR_DEFAULT, NoProject, prefix, NoClient, client)
    ELSE ConfigurationAdd(reg, STR_DEFAULT, NoProject, prefix, client, NoClient)

\* configure(client, prefix): CONFIGURATIONS["db"] and CONFIGURATIONS["prefix"]
ConfigureLegacy(kind, client, prefix) ==
    [kind |-> kind, db |-> client, prefix |-> prefix]

----------------------------------------------------------------------------
(* Record types *)

STR_PROFILES == <<112, 114, 111, 102, 105, 108, 101, 115>>       \* "profiles"
STR_CUSTOM == <<99, 117, 115, 116, 111, 109>>                    \* "custom"
STR_USERS_1_STATS == <<117, 115, 101, 114, 115, 47, 49, 47, 115, 116, 97, 116, 115>>
                                                                 \* "users/1/stats"
STR_TPL == <<117, 115, 101, 114, 115, 47, 123, 105, 100, 125, 47, 115, 116, 97, 116, 115>>
                                                                 \* "users/{id}/stats"
STR_PRODUCTS == <<112, 114, 111, 100, 117, 99, 116, 115>>       \* "products"
STR_USER == <<85, 115, 101, 114>>                                \* "User"
STR_EMPTY == <<>>                                                \* ""
STR_X == <<120>>                                                 \* "x"
STR_Y == <<121>>                                                 \* "y"
STR_A1 == <<65, 49>>                                             \* "A1"
STR_A2 == <<65, 50>>                                             \* "A2"

\* an int value, kept apart from every string
IntVal(n) == <<-2, n>>
IsInt(v) == Len(v) = 2 /\ v[1] = -2
IsStr(v) == \A i \in 1..Len(v) : v[i] >= 0

\* a field of a record type: the key it is stored under, whether it takes
\* None, whether it must be given, and its default; an int field is one whose
\* default is an int or that is declared through IntField
Field(alias, optional, required, default) ==
    [alias |-> alias, type |-> "str", optional |-> optional, required |-> required,
     default |-> default]
IntField(alias, optional, required, default) ==
    [alias |-> alias, type |-> "int", optional |-> optional, required |-> required,
     default |-> default]

\* a record type (a class): kind is "model" for BareModel / Model classes and
\* "submodel" for BareSubModel / SubModel classes
Class(name, kind, collection, document_id, fields, extra_forbid) ==
    [name |-> name, kind |-> kind, collection |-> collection,
     document_id |-> document_id, db_config |-> STR_DEFAULT,
     fields |-> fields, extra_forbid |-> extra_forbid]

\* class Profile(Model): name: Optional[str] = "", photo_url: Optional[str] = None
Profile ==
    Class("Profile", "model", STR_PROFILES, "id",
          [id |-> Field("id", TRUE, FALSE, None),
           name |-> Field("name", TRUE, FALSE, STR_EMPTY),
           photo_url |-> Field("photo_url", TRUE, FALSE, None)], TRUE)

\* class CustomIDConflictModel(Model): foo: str, bar: str
CustomIDConflictModel ==
    Class("CustomIDConflictModel", "model", STR_CUSTOM, "id",
          [id |-> Field("id", TRUE, FALSE, None),
           foo |-> Field("foo", FALSE, TRUE, None),
           bar |-> Field("bar", FALSE, TRUE, None)], TRUE)

\* class CustomIDModel(BareModel): __document_id__ = "foo"
CustomIDModel ==
    Class("CustomIDModel", "model", STR_CUSTOM, "foo",
          [foo |-> Field("foo", TRUE, FALSE, None),
           bar |-> Field("bar", FALSE, TRUE, None)], TRUE)

\* test_missing_collection: class User(Model): name: str, no __collection__
MissingCollectionUser ==
    Class("User", "model", None, "id",
          [id |-> Field("id", TRUE, FALSE, None),
           name |-> Field("name", FALSE, TRUE, None)], FALSE)

\* class Product(Model): product_id: str, stock: int
Product ==
    Class("Product", "model", STR_PRODUCTS, "id",
          [id |-> Field("id", TRUE, FALSE, None),
           product_id |-> Field("product_id", FALSE, TRUE, None),
           stock |-> IntField("stock", FALSE, TRUE, None)], TRUE)

\* test_model_aliases: class User(Model): first_name: str = Field(..., alias="firstName")
AliasUser ==
    Class("User", "model", STR_USER, "id",
          [id |-> Field("id", TRUE, FALSE, None),
           first_name |-> Field("firstName", FALSE, TRUE, None),
           city |-> Field("city", FALSE, TRUE, None)], FALSE)

\* class UserStats(SubModel): purchases = 0, as declared: not bound to a parent
UserStats ==
    Class("UserStats", "submodel", None, "id",
          [id |-> Field("id", TRUE, FALSE, None),
           purchases |-> IntField("purchases", FALSE, FALSE, IntVal(0))], FALSE)

\* UserStats with the path template as its own __collection__
UserStatsTemplate == [UserStats EXCEPT !.collection = STR_TPL]

\* UserStats.model_for(user) for the user with id "1"
UserStatsFor1 == [UserStats EXCEPT !.collection = STR_USERS_1_STATS]

FieldNames(cls) == DOMAIN cls.fields

----------------------------------------------------------------------------
(* Record instances and the record mapper *)

\* cls(**kwargs): the given fields are set, the others take their defaults
New(cls, kwargs) ==
    [cls |-> cls,
     vals |-> [f \in FieldNames(cls) |->
                 IF f \in DOMAIN kwargs THEN kwargs[f] ELSE cls.fields[f].default],
     fset |-> DOMAIN kwargs]

\* setattr(self, name, value): the field counts as set from then on
SetAttr(i, name, value) ==
    [i EXCEPT !.vals = [f \in DOMAIN i.vals |-> IF f = name THEN value ELSE i.vals[f]],
              !.fset = i.fset \cup {name}]

\* getattr(self, self.__document_id__, None)
DocumentIdOf(i) == i.vals[i.cls.document_id]

\* self.model_dump(by_alias=True, exclude_unset=..., exclude_none=...)
ModelDump(i, exclude_unset, exclude_none) ==
    LET keep == {f \in FieldNames(i.cls) :
                    /\ (exclude_unset => f \in i.fset)
                    /\ (exclude_none => i.vals[f] # None)}
        keys == {i.cls.fields[f].alias : f \in keep}
    IN  [k \in keys |-> i.vals[CHOOSE f \in keep : i.cls.fields[f].alias = k]]

\* a mapper that leaves the identifier key in the payload
ToStorageKeepsId(i, exclude_unset, exclude_none) ==
    ModelDump(i, exclude_unset, exclude_none)

\* the payload save writes: the dump without the key named __document_id__
ToStorage(i, exclude_unset, exclude_none) ==
    LET data == ModelDump(i, exclude_unset, exclude_none)
    IN  [k \in DOMAIN data \ {i.cls.document_id} |-> data[k]]

\* the value has the field's declared type
TypeOk(cls, f, v) ==
    IF v = None THEN cls.fields[f].optional
    ELSE IF cls.fields[f].type = "int" THEN IsInt(v)
    ELSE IsStr(v)

\* cls(**data): pydantic validation of a field map read from storage
Validates(cls, data) ==
    /\ cls.extra_forbid => \A k \in DOMAIN data : \E f \in FieldNames(cls) : cls.fields[f].alias = k
    /\ \A f \in FieldNames(cls) :
         IF cls.fields[f].alias \in DOMAIN data
         THEN TypeOk(cls, f, data[cls.fields[f].alias])
         ELSE ~cls.fields[f].required

\* no record type, no instance
NoClass == Class("none", "model", None, "id", <<>>, FALSE)
NoInst == [cls |-> NoClass, vals |-> <<>>, fset |-> {}]

\* data[cls.__document_id__] = doc_id; model = cls(**data);
\* setattr(model, cls.__document_id__, doc_id)
FromStorage(cls, doc_id, data) ==
    LET withId == [k \in DOMAIN data \cup {cls.document_id} |->
                     IF k = cls.document_id THEN doc_id ELSE data[k]]
        given == {f \in FieldNames(cls) : cls.fields[f].alias \in DOMAIN withId}
        model == [cls |-> cls,
                  vals |-> [f \in FieldNames(cls) |->
                              IF f \in given THEN withId[cls.fields[f].alias]
                              ELSE cls.fields[f].default],
                  fset |-> given]
    IN  IF Validates(cls, withId)
        THEN [outcome |-> "ok", inst |-> SetAttr(model, cls.document_id, doc_id)]
        ELSE [outcome |-> "ValidationError", inst |-> NoInst]

----------------------------------------------------------------------------
(* The backend document store *)

Doc(db, col, id, body) == [db |-> db, col |-> col, id |-> id, body |-> body]

At(store, db, col, id) == {d \in store : d.db = db /\ d.col = col /\ d.id = id}

\* a set that merges: the fields the payload lacks are kept
BackendSetMerging(store, db, col, id, body) ==
    LET old == IF At(store, db, col, id) = {} THEN <<>>
               ELSE (CHOOSE d \in At(store, db, col, id) : TRUE).body
    IN  (store \ At(store, db, col, id)) \cup {Doc(db, col, id, body @@ old)}

\* doc_ref.set(data): the document at the path is replaced
BackendSet(store, db, col, id, body) ==
    (store \ At(store, db, col, id)) \cup {Doc(db, col, id, body)}

\* doc_ref.delete()
BackendDelete(store, db, col, id) == store \ At(store, db, col, id)

\* doc_ref.get().to_dict(): None when no document is at the path
BackendGet(store, db, col, id) ==
    IF At(store, db, col, id) = {}
    THEN [exists |-> FALSE, data |-> <<>>]
    ELSE [exists |-> TRUE, data |-> (CHOOSE d \in At(store, db, col, id) : TRUE).body]

\* the documents of one collection
BackendStream(store, db, col) == {d \in store : d.db = db /\ d.col = col}

\* a request sent to the backend
Call(kind, db, col, id) ==
    [kind |-> kind, db |-> db, col |-> col, id |-> id, transaction |-> FALSE]

----------------------------------------------------------------------------
(* Collection references *)

ColRef(db, col, reg) == [outcome |-> "ok", db |-> db, col |-> col, registry |-> reg]
ColRefError(e) == [outcome |-> e, db |-> NoClient, col |-> <<>>, registry |-> registry]

\* firedantic._sync.model._get_col_ref(cls, name)
SyncModuleGetColRef(name) ==
    IF legacy.kind = "unset" THEN ColRefError("KeyError")
    ELSE IF Falsy(name) THEN ColRefError("CollectionNotDefined")
    ELSE ColRef(legacy.db, legacy.prefix \o name, registry)

\* cls._get_col_ref() of the blocking classes
SyncGetColRef(cls) ==
    IF cls.kind = "submodel"
    THEN IF cls.collection = None \/ Contains(cls.collection, LBRACE)
         THEN ColRefError("CollectionNotDefined")
         ELSE SyncModuleGetColRef(cls.collection)
    ELSE SyncModuleGetColRef(cls.collection)

\* firedantic._async.model.get_collection_name(cls, collection_name)
AsyncGetCollectionName(db_config, cls_collection, collection_name) ==
    IF ~Falsy(collection_name)
    THEN IF db_config \in DOMAIN registry
         THEN [outcome |-> "ok", name |-> registry[db_config].prefix \o collection_name]
         ELSE [outcome |-> "KeyError", name |-> <<>>]
    ELSE IF ~Falsy(cls_collection)
    THEN IF db_config \in DOMAIN registry
         THEN [outcome |-> "ok", name |-> registry[db_config].prefix \o cls_collection]
         ELSE [outcome |-> "KeyError", name |-> <<>>]
    ELSE [outcome |-> "CollectionNotDefined", name |-> <<>>]

\* what an accessor of the registry returns: the exception raised ("ok" for
\* none), the handle, the registry it leaves, whether a handle was constructed
Accessed(outcome, client, reg, constructed) ==
    [outcome |-> outcome, client |-> client, registry |-> reg,
     constructed |-> constructed]

\* Configuration.get_config(name)
GetConfig(name) ==
    IF name \in DOMAIN registry
    THEN [outcome |-> "ok", item |-> registry[name]]
    ELSE [outcome |-> "KeyError", item |-> NoItem]

\* an accessor that constructs a handle on every call
GetClientUncached(name) ==
    IF name \notin DOMAIN registry THEN Accessed("KeyError", NoClient, registry, FALSE)
    ELSE IF registry[name].project = NoProject
    THEN Accessed("RuntimeError", NoClient, registry, FALSE)
    ELSE Accessed("ok", registry[name].project,
                  [registry EXCEPT ![name].client = registry[name].project], TRUE)

\* Configuration.get_client(name): the handle, constructed on first use
GetClient(name) ==
    IF name \notin DOMAIN registry THEN Accessed("KeyError", NoClient, registry, FALSE)
    ELSE IF registry[name].client # NoClient
    THEN Accessed("ok", registry[name].client, registry, FALSE)
    ELSE IF registry[name].project = NoProject
    THEN Accessed("RuntimeError", NoClient, registry, FALSE)
    ELSE Accessed("ok", registry[name].project,
                  [registry EXCEPT ![name].client = registry[name].project], TRUE)

\* Configuration.get_async_client(name): the handle, constructed on first use
GetAsyncClient(name) ==
    IF name \notin DOMAIN registry THEN Accessed("KeyError", NoClient, registry, FALSE)
    ELSE IF registry[name].async_client # NoClient
    THEN Accessed("ok", registry[name].async_client, registry, FALSE)
    ELSE IF registry[name].project = NoProject
    THEN Accessed("RuntimeError", NoClient, registry, FALSE)
    ELSE Accessed("ok", registry[name].project,
                  [registry EXCEPT ![name].async_client = registry[name].project], TRUE)

\* firedantic._async.model._get_col_ref(cls, collection_name)
AsyncModuleGetColRef(db_config, cls_collection, collection_name) ==
    LET n == AsyncGetCollectionName(db_config, cls_collection, collection_name)
        c == GetAsyncClient(db_config)
    IN  IF n.outcome # "ok" THEN ColRefError(n.outcome)
        ELSE IF c.outcome # "ok" THEN ColRefError(c.outcome)
        ELSE ColRef(c.client, n.name, c.registry)

\* cls._get_col_ref(...) of the non-blocking classes; given tells whether the
\* caller passes collection_name, which AsyncBareSubModel declares without a default
AsyncGetColRef(cls, given, collection_name) ==
    IF cls.kind = "submodel"
    THEN IF ~given THEN ColRefError("TypeError")
         ELSE IF cls.collection = None \/ Contains(cls.collection, LBRACE)
         THEN ColRefError("CollectionNotDefined")
         ELSE AsyncModuleGetColRef(STR_DEFAULT, None, cls.collection)
    ELSE AsyncModuleGetColRef(cls.db_config, cls.collection,
                              IF given THEN collection_name ELSE None)

\* Configuration.get_collection_name(model_class, config_name)
ConfigurationGetCollectionName(cls, config_name) ==
    IF config_name \notin DOMAIN registry THEN [outcome |-> "KeyError", name |-> <<>>]
    ELSE IF cls.collection = None THEN [outcome |-> "TypeError", name |-> <<>>]
    ELSE [outcome |-> "ok", name |-> registry[config_name].prefix \o cls.collection]

\* Configuration.get_async_collection_ref(model_class, name)
GetAsyncCollectionRef(cls, name) ==
    IF name \notin DOMAIN registry THEN ColRefError("KeyError")
    ELSE IF registry[name].async_client = NoClient THEN ColRefError("RuntimeError")
    ELSE LET n == ConfigurationGetCollectionName(cls, name)
         IN  IF n.outcome # "ok" THEN ColRefError(n.outcome)
             ELSE ColRef(registry[name].async_client, n.name, registry)

----------------------------------------------------------------------------
(* Filters *)

\* firedantic.operators
OP_LT == "<"
OP_LTE == "<="
OP_EQ == "=="
OP_NE == "!="
OP_GT == ">"
OP_GTE == ">="
OP_ARRAY_CONTAINS == "array-contains"
OP_ARRAY_CONTAINS_ANY == "array-contains-any"
OP_IN == "in"
OP_NOT_IN == "not-in"

FIND_TYPES ==
    {OP_LT, OP_LTE, OP_EQ, OP_NE, OP_GT, OP_GTE,
     OP_ARRAY_CONTAINS, OP_ARRAY_CONTAINS_ANY, OP_IN, OP_NOT_IN}

\* a filter entry: a literal value, or (isinstance(value, dict)) an operator map
Literal(v) == [isdict |-> FALSE, value |-> v, ops |-> <<>>]
OperatorMap(m) == [isdict |-> TRUE, value |-> <<>>, ops |-> m]

\* FieldFilter(field, op, operand)
FieldFilter(field, op, operand) == [field |-> field, op |-> op, operand |-> operand]

\* _add_filter that returns from inside its loop, after the first operator
AddFilterFirstOnly(field, value) ==
    IF value.isdict
    THEN IF DOMAIN value.ops = {} THEN {}
         ELSE LET f_type == CHOOSE x \in DOMAIN value.ops : TRUE
              IN  {FieldFilter(field, f_type, value.ops[f_type])}
    ELSE {FieldFilter(field, "==", value.value)}

\* _add_filter(query, field, value): the predicates the entry adds to the query
AddFilter(field, value) ==
    IF value.isdict
    THEN {FieldFilter(field, f_type, value.ops[f_type]) : f_type \in DOMAIN value.ops}
    ELSE {FieldFilter(field, "==", value.value)}

\* _add_filter raises ValueError for an operator outside FIND_TYPES
Unsupported(filter_) ==
    \E key \in DOMAIN filter_ :
        filter_[key].isdict /\ \E f_type \in DOMAIN filter_[key].ops : f_type \notin FIND_TYPES

\* the (key, f_type) pairs of the operator maps of a filter
OperatorPairs(filter_) ==
    UNION {{<<key, f_type>> : f_type \in DOMAIN filter_[key].ops} :
             key \in {k \in DOMAIN filter_ : filter_[k].isdict}}

\* the orders in which find walks them: filter_.items(), and within an entry
\* the keys of its operator map
Walks(filter_) ==
    {w \in [1..Cardinality(OperatorPairs(filter_)) -> OperatorPairs(filter_)] :
        /\ \A m, n \in DOMAIN w : m # n => w[m] # w[n]
        /\ \A l, m, n \in DOMAIN w :
              (l < m /\ m < n /\ w[l][1] = w[n][1]) => w[m][1] = w[l][1]}

\* a walk that looks at the first operator only
FirstUnsupportedHeadOnly(walk) ==
    IF walk # <<>> /\ walk[1][2] \notin FIND_TYPES THEN walk[1][2] ELSE ""

\* the f_type the ValueError of _add_filter names: the first one of the walk
\* that is not in FIND_TYPES ("" when the walk meets none)
RECURSIVE FirstUnsupported(_)
FirstUnsupported(walk) ==
    IF walk = <<>> THEN ""
    ELSE IF walk[1][2] \notin FIND_TYPES THEN walk[1][2]
    ELSE FirstUnsupported(Tail(walk))

\* the query find builds: every predicate of every entry
Query(filter_) == UNION {AddFilter(key, filter_[key]) : key \in DOMAIN filter_}

\* the backend's order on values of one type; values of two types do not compare
RECURSIVE StrLess(_, _)
StrLess(a, b) ==
    IF b = <<>> THEN FALSE
    ELSE IF a = <<>> THEN TRUE
    ELSE IF a[1] # b[1] THEN a[1] < b[1]
    ELSE StrLess(Tail(a), Tail(b))

ValLess(a, b) ==
    IF IsInt(a) /\ IsInt(b) THEN a[2] < b[2]
    ELSE IF a # None /\ b # None /\ IsStr(a) /\ IsStr(b) THEN StrLess(a, b)
    ELSE FALSE

SameType(a, b) ==
    \/ IsInt(a) /\ IsInt(b)
    \/ a = None /\ b = None
    \/ a # None /\ b # None /\ IsStr(a) /\ IsStr(b)

\* query.where(filter=...): the backend's reading of one predicate on a document
\* (the comparison operators; a document without the field matches none)
Matches(body, f) ==
    /\ f.field \in DOMAIN body
    /\ CASE f.op = "==" -> body[f.field] = f.operand
         [] f.op = "!=" -> body[f.field] # f.operand /\ body[f.field] # None
         [] f.op = "<" -> ValLess(body[f.field], f.operand)
         [] f.op = "<=" -> ValLess(body[f.field], f.operand)
                                \/ (SameType(body[f.field], f.operand) /\ body[f.field] = f.operand)
         [] f.op = ">" -> ValLess(f.operand, body[f.field])
         [] f.op = ">=" -> ValLess(f.operand, body[f.field])
                                \/ (SameType(body[f.field], f.operand) /\ body[f.field] = f.operand)
         [] OTHER -> FALSE

----------------------------------------------------------------------------
(* Storage operations *)

\* what an operation leaves behind: the exception it raised ("ok" for none), the
\* requests it sent, the store, the transaction's staged writes, the registry,
\* the instance it ran on, the documents a query matched and the records returned
Res(outcome, calls, store, stg, reg, i, rows, found) ==
    [outcome |-> outcome, calls |-> calls, docs |-> store, staged |-> stg,
     registry |-> reg, inst |-> i, rows |-> rows, found |-> found]

\* an exception raised before any request was sent
Raise(e, reg, i) == Res(e, <<>>, docs, staged, reg, i, {}, <<>>)

\* the transaction argument dropped: every read is sent outside it
Unscoped(r, transaction) == r

\* get(transaction=transaction) / query.stream(transaction=transaction): the
\* reads of an operation are sent with the transaction it was given
InTransaction(r, transaction) ==
    [r EXCEPT !.calls = [n \in 1..Len(r.calls) |->
                           [r.calls[n] EXCEPT !.transaction = transaction]]]

\* a write staged on the transaction
Write(kind, db, col, id, body) ==
    [kind |-> kind, db |-> db, col |-> col, id |-> id, body |-> body]

\* save that skips get_document_id()'s validation
SaveAtUnvalidated(ref, i, exclude_unset, exclude_none, tx, auto) ==
    LET data == ToStorage(i, exclude_unset, exclude_none)
        doc_id == DocumentIdOf(i)
        id == IF doc_id = None THEN auto ELSE doc_id
    IN  IF ref.outcome # "ok" THEN Raise(ref.outcome, ref.registry, i)
        ELSE IF tx
        THEN Res("ok", <<>>, docs,
                 Append(staged, Write("set", ref.db, ref.col, id, data)),
                 ref.registry, SetAttr(i, i.cls.document_id, id), {}, <<>>)
        ELSE Res("ok", <<Call("set", ref.db, ref.col, id)>>,
                 BackendSet(docs, ref.db, ref.col, id, data), staged,
                 ref.registry, SetAttr(i, i.cls.document_id, id), {}, <<>>)

\* save, from the collection reference on: get_document_id(), document(...),
\* set(...) or transaction.set(...), setattr(self, __document_id__, doc_ref.id);
\* auto is the identifier document() draws when the instance has none
SaveAt(ref, i, exclude_unset, exclude_none, tx, auto) ==
    LET data == ToStorage(i, exclude_unset, exclude_none)
        doc_id == DocumentIdOf(i)
        id == IF doc_id = None THEN auto ELSE doc_id
    IN  IF ref.outcome # "ok" THEN Raise(ref.outcome, ref.registry, i)
        ELSE IF doc_id # None /\ ValidateDocumentId(doc_id) # "ok"
        THEN Raise("InvalidDocumentID", ref.registry, i)
        ELSE IF tx
        THEN Res("ok", <<>>, docs,
                 Append(staged, Write("set", ref.db, ref.col, id, data)),
                 ref.registry, SetAttr(i, i.cls.document_id, id), {}, <<>>)
        ELSE Res("ok", <<Call("set", ref.db, ref.col, id)>>,
                 BackendSet(docs, ref.db, ref.col, id, data), staged,
                 ref.registry, SetAttr(i, i.cls.document_id, id), {}, <<>>)

\* BareModel.save
Save(i, exclude_unset, exclude_none, tx, auto) ==
    SaveAt(SyncGetColRef(i.cls), i, exclude_unset, exclude_none, tx, auto)

\* AsyncBareModel.save, config_name not given
AsyncSave(i, exclude_unset, exclude_none, tx, auto) ==
    SaveAt(GetAsyncCollectionRef(i.cls, i.cls.db_config), i,
           exclude_unset, exclude_none, tx, auto)

\* delete, from the collection reference on: _get_doc_ref() and delete()
DeleteAt(ref, i, tx, auto) ==
    LET doc_id == DocumentIdOf(i)
        id == IF doc_id = None THEN auto ELSE doc_id
    IN  IF ref.outcome # "ok" THEN Raise(ref.outcome, ref.registry, i)
        ELSE IF doc_id # None /\ ValidateDocumentId(doc_id) # "ok"
        THEN Raise("InvalidDocumentID", ref.registry, i)
        ELSE IF tx
        THEN Res("ok", <<>>, docs,
                 Append(staged, Write("delete", ref.db, ref.col, id, <<>>)),
                 ref.registry, i, {}, <<>>)
        ELSE Res("ok", <<Call("delete", ref.db, ref.col, id)>>,
                 BackendDelete(docs, ref.db, ref.col, id), staged,
                 ref.registry, i, {}, <<>>)

\* BareModel.delete
Delete(i, tx, auto) == DeleteAt(SyncGetColRef(i.cls), i, tx, auto)

\* AsyncBareModel.delete: _get_doc_ref() hands its config_name, "(default)",
\* to _get_col_ref as the collection name
AsyncDelete(i, tx, auto) == DeleteAt(AsyncGetColRef(i.cls, TRUE, STR_DEFAULT), i, tx, auto)

\* get_by_doc_id, the collection reference being ref
GetAt(ref, cls, doc_id, i) ==
    IF ValidateDocumentId(doc_id) # "ok" THEN Raise("ModelNotFoundError", registry, i)
    ELSE IF ref.outcome # "ok" THEN Raise(ref.outcome, ref.registry, i)
    ELSE LET document == BackendGet(docs, ref.db, ref.col, doc_id)
             model == FromStorage(cls, doc_id, document.data)
             call == <<Call("get", ref.db, ref.col, doc_id)>>
             read == At(docs, ref.db, ref.col, doc_id)
         IN  IF ~document.exists
             THEN Res("ModelNotFoundError", call, docs, staged, ref.registry, i, {}, <<>>)
             ELSE IF model.outcome # "ok"
             THEN Res(model.outcome, call, docs, staged, ref.registry, i, read, <<>>)
             ELSE Res("ok", call, docs, staged, ref.registry, i, read, <<model.inst>>)

\* BareModel.get_by_doc_id, Model.get_by_id
GetByDocId(cls, doc_id) == GetAt(SyncGetColRef(cls), cls, doc_id, NoInst)

\* AsyncBareModel.get_by_doc_id, AsyncModel.get_by_id
AsyncGetByDocId(cls, doc_id) == GetAt(AsyncGetColRef(cls, FALSE, None), cls, doc_id, NoInst)

\* reload, got being the outcome of get_by_doc_id(doc_id):
\* self.__dict__.update(updated_model.__dict__)
ReloadWith(i, got) ==
    IF got.outcome # "ok" THEN [got EXCEPT !.inst = i, !.found = <<>>]
    ELSE [got EXCEPT !.inst = [i EXCEPT !.vals = got.found[1].vals], !.found = <<>>]

\* BareModel.reload
Reload(i) ==
    IF DocumentIdOf(i) = None THEN Raise("ModelNotFoundError", registry, i)
    ELSE ReloadWith(i, GetByDocId(i.cls, DocumentIdOf(i)))

\* AsyncBareModel.reload
AsyncReload(i) ==
    IF DocumentIdOf(i) = None THEN Raise("ModelNotFoundError", registry, i)
    ELSE ReloadWith(i, AsyncGetByDocId(i.cls, DocumentIdOf(i)))

\* find up to query.stream(): the documents of the collection the query matches
FindAt(ref, filter_) ==
    IF ref.outcome # "ok" THEN Raise(ref.outcome, ref.registry, NoInst)
    ELSE IF Unsupported(filter_) THEN Raise("ValueError", ref.registry, NoInst)
    ELSE Res("ok", <<Call("stream", ref.db, ref.col, <<>>)>>, docs, staged, ref.registry,
             NoInst,
             {d \in BackendStream(docs, ref.db, ref.col) :
                 \A f \in Query(filter_) : Matches(d.body, f)},
             <<>>)

\* find's _cls for every streamed document, in the order the backend
\* streamed them
Hydrate(cls, r, streamed) ==
    IF r.outcome # "ok" THEN r
    ELSE IF \E n \in 1..Len(streamed) :
                FromStorage(cls, streamed[n].id, streamed[n].body).outcome # "ok"
    THEN [r EXCEPT !.outcome = "ValidationError"]
    ELSE [r EXCEPT !.found = [n \in 1..Len(streamed) |->
                                FromStorage(cls, streamed[n].id, streamed[n].body).inst]]

\* _cls logs a warning when the document body holds the identifier field's key
Warnings(cls, r) ==
    IF r.outcome \notin {"ok", "ValidationError"} THEN {}
    ELSE {d.id : d \in {x \in r.rows : cls.document_id \in DOMAIN x.body}}

\* BareModel.find
Find(cls, filter_) == FindAt(SyncGetColRef(cls), filter_)

\* AsyncBareModel.find
AsyncFind(cls, filter_) == FindAt(AsyncGetColRef(cls, FALSE, None), filter_)

\* truncate_collection: every document of the collection is deleted
TruncateAt(ref) ==
    IF ref.outcome # "ok" THEN Raise(ref.outcome, ref.registry, NoInst)
    ELSE Res("ok", <<Call("stream", ref.db, ref.col, <<>>)>>,
             docs \ BackendStream(docs, ref.db, ref.col), staged, ref.registry,
             NoInst, BackendStream(docs, ref.db, ref.col), <<>>)

\* BareModel.truncate_collection
TruncateCollection(cls) == TruncateAt(SyncGetColRef(cls))

\* AsyncBareModel.truncate_collection
AsyncTruncateCollection(cls) == TruncateAt(AsyncGetColRef(cls, FALSE, None))

----------------------------------------------------------------------------
(* The application: configuration at start-up, then operations on records *)

MaxDocs == 2
MaxStaged == 1
MaxOps == 5

STR_T == <<116, 45>>                                             \* "t-"
STR_DOTS == <<46, 46>>                                           \* ".."

\* the identifiers document() generates
AutoIds == {STR_A1, STR_A2}

\* the instances the application constructs
Candidates ==
    { New(Profile, <<>>),
      New(Profile, [id |-> STR_X, name |-> None]),
      New(Profile, [id |-> STR_X, name |-> STR_Y]),
      New(Profile, [id |-> STR_EMPTY]),
      New(Profile, [id |-> STR_DOTS, name |-> STR_Y]),
      New(CustomIDModel, [bar |-> STR_Y]),
      New(CustomIDConflictModel, [foo |-> STR_X, bar |-> STR_Y]),
      New(MissingCollectionUser, [name |-> STR_Y]),
      New(MissingCollectionUser, [id |-> STR_X, name |-> STR_Y]),
      New(UserStats, [id |-> STR_X]),
      New(UserStatsTemplate, [id |-> STR_X]),
      New(UserStatsFor1, [id |-> STR_X, purchases |-> IntVal(2)]),
      New(UserStatsFor1, <<>>) }

\* the (exclude_unset, exclude_none, transaction) options save is called with
SaveOptions ==
    { <<FALSE, FALSE, FALSE>>, <<FALSE, FALSE, TRUE>>,
      <<TRUE, FALSE, FALSE>>, <<FALSE, TRUE, FALSE>> }

\* the identifiers the application looks up
LookupIds == {STR_X, STR_A1, STR_EMPTY, STR_DOTS}

\* the filters the application queries with
Filters ==
    { <<>>,
      [bar |-> Literal(STR_Y)],
      [bar |-> OperatorMap([x \in {"=="} |-> STR_Y])],
      [bar |-> OperatorMap([x \in {"~="} |-> STR_Y])] }

\* the application calls the blocking classes with a blocking client configured
\* and the non-blocking classes with a non-blocking one
ModeOk(mode) ==
    IF mode = "sync" THEN legacy.kind # "async" ELSE legacy.kind # "sync"

\* order_by=None, and limit=None / offset=None
NoOrder == [given |-> FALSE, by |-> <<>>]
NoNumber == -1

\* order_by=[(field, direction), ...]
OrderBy(by) == [given |-> TRUE, by |-> by]

\* an admin backend without composite indexes and without TTL policies
NoAdmin == [indexes |-> {}, ttl |-> <<>>]

\* what the caller of an operation can observe of it: the exception, the
\* requests sent, the store, the staged writes, the instance, the rows matched
Observed(r) ==
    [outcome |-> r.outcome, calls |-> r.calls, docs |-> r.docs, staged |-> r.staged,
     inst |-> r.inst, rows |-> r.rows]

NoTwin ==
    [outcome |-> "none", calls |-> <<>>, docs |-> {}, staged |-> <<>>,
     inst |-> NoInst, rows |-> {}]

NoOp ==
    [op |-> "none", mode |-> "none", cls |-> NoClass, id |-> <<>>, filter |-> <<>>,
     exclude_unset |-> FALSE, exclude_none |-> FALSE, tx |-> FALSE, data |-> <<>>,
     outcome |-> "none", calls |-> <<>>, rows |-> {}, found |-> <<>>, warned |-> {},
     named |-> "", order_by |-> NoOrder, limit |-> NoNumber, offset |-> NoNumber,
     inst |-> NoInst, models |-> <<>>, failing |-> {},
     item |-> NoItem, handle |-> NoClient, constructed |-> FALSE, twin |-> NoTwin,
     returned |-> NoNumber,
     before |-> [docs |-> {}, staged |-> <<>>, inst |-> NoInst, admin |-> NoAdmin,
                 registry |-> InitialRegistry]]

\* the record of an operation that returned r
Op(op, mode, cls, r) ==
    [NoOp EXCEPT !.op = op, !.mode = mode, !.cls = cls,
                 !.outcome = r.outcome, !.calls = r.calls, !.rows = r.rows,
                 !.found = r.found, !.inst = r.inst,
                 !.before = [docs |-> docs, staged |-> staged, inst |-> inst,
                               admin |-> admin, registry |-> registry]]

Init ==
    /\ legacy = InitialLegacy
    /\ registry = InitialRegistry
    /\ docs = {}
    /\ staged = <<>>
    /\ inst = NoInst
    /\ ops = 0
    /\ tasks = <<>>
    /\ last = NoOp
    /\ pin = <<>>
    /\ pout = "none"
    /\ admin = NoAdmin

Unconfigured == legacy = InitialLegacy /\ registry = InitialRegistry

\* one more operation performed
Step == ops < MaxOps /\ ops' = ops + 1

\* configure(client, prefix) at start-up
Configure ==
    /\ Unconfigured
    /\ Step
    /\ \E kind \in {"sync", "async"} :
         /\ legacy' = ConfigureLegacy(kind, "p1", STR_T)
         /\ registry' = ConfigureRegistry(registry, kind, "p1", STR_T)
    /\ last' = [NoOp EXCEPT !.op = "configure"]
    /\ UNCHANGED <<docs, staged, inst, pin, pout, admin, tasks>>

\* configuration.add(project=...) at start-up: the handles are left to be
\* constructed on first use
Add ==
    /\ Unconfigured
    /\ Step
    /\ registry' = ConfigurationAdd(registry, STR_DEFAULT, "p1", <<>>, NoClient, NoClient)
    /\ last' = [NoOp EXCEPT !.op = "add"]
    /\ UNCHANGED <<legacy, docs, staged, inst, pin, pout, admin, tasks>>

\* the application constructs a record instance
Construct ==
    /\ Step
    /\ \E i \in Candidates : inst' = i
    /\ last' = [NoOp EXCEPT !.op = "construct"]
    /\ UNCHANGED <<legacy, registry, docs, staged, pin, pout, admin, tasks>>

\* the state an operation that returned r leaves
Apply(r, l) ==
    /\ Step
    /\ Cardinality(r.docs) <= MaxDocs \/ Cardinality(r.docs) <= Cardinality(docs)
    /\ Len(r.staged) <= MaxStaged
    /\ docs' = r.docs
    /\ staged' = r.staged
    /\ registry' = r.registry
    /\ last' = l
    /\ UNCHANGED <<legacy, pin, pout, admin, tasks>>

\* the identifier document() draws is not in use
Fresh(auto) == \A d \in docs : d.id # auto

\* inst.save(exclude_unset=..., exclude_none=..., transaction=...)
DoSave ==
    /\ inst # NoInst
    /\ \E mode \in {"sync", "async"}, o \in SaveOptions, auto \in AutoIds :
         /\ ModeOk(mode)
         /\ Fresh(auto)
         /\ LET r == IF mode = "sync" THEN Save(inst, o[1], o[2], o[3], auto)
                     ELSE AsyncSave(inst, o[1], o[2], o[3], auto)
            IN  /\ Apply(r, [Op("save", mode, inst.cls, r) EXCEPT
                               !.exclude_unset = o[1], !.exclude_none = o[2], !.tx = o[3],
                               !.data = ToStorage(inst, o[1], o[2])])
                /\ inst' = r.inst

\* inst.delete(transaction=...)
DoDelete ==
    /\ inst # NoInst
    /\ \E mode \in {"sync", "async"}, tx \in BOOLEAN, auto \in AutoIds :
         /\ ModeOk(mode)
         /\ Fresh(auto)
         /\ LET r == IF mode = "sync" THEN Delete(inst, tx, auto)
                     ELSE AsyncDelete(inst, tx, auto)
            IN  /\ Apply(r, [Op("delete", mode, inst.cls, r) EXCEPT !.tx = tx])
                /\ inst' = r.inst

\* inst.reload(transaction=...), the transaction given or not as txs says
DoReloadIn(txs) ==
    /\ inst # NoInst
    /\ \E mode \in {"sync", "async"}, tx \in txs :
         /\ ModeOk(mode)
         /\ LET r == InTransaction(IF mode = "sync" THEN Reload(inst)
                                   ELSE AsyncReload(inst), tx)
            IN  /\ Apply(r, [Op("reload", mode, inst.cls, r) EXCEPT !.tx = tx])
                /\ inst' = r.inst

\* inst.reload()
DoReload == DoReloadIn({FALSE})

\* type(inst).get_by_doc_id(doc_id, transaction=...), given or not as txs says
DoGetByDocIdIn(txs) ==
    /\ inst # NoInst
    /\ \E mode \in {"sync", "async"}, doc_id \in LookupIds, tx \in txs :
         /\ ModeOk(mode)
         /\ LET r == InTransaction(IF mode = "sync" THEN GetByDocId(inst.cls, doc_id)
                                   ELSE AsyncGetByDocId(inst.cls, doc_id), tx)
            IN  /\ Apply(r, [Op("get_by_doc_id", mode, inst.cls, r) EXCEPT
                               !.id = doc_id, !.tx = tx])
                /\ UNCHANGED inst

\* type(inst).get_by_doc_id(doc_id)
DoGetByDocId == DoGetByDocIdIn({FALSE})

\* the orders in which the backend may stream a set of documents
Orderings(rows) ==
    {s \in [1..Cardinality(rows) -> rows] :
        \A m, n \in 1..Cardinality(rows) : m # n => s[m] # s[n]}

\* a query built with limit and offset taken for one another
QueryWindowSwapped(order_by, limit, offset) ==
    [order |-> IF order_by.given THEN order_by.by ELSE <<>>,
     limited |-> offset # NoNumber, limit |-> offset,
     offset |-> IF limit # NoNumber THEN limit ELSE 0]

\* find: query.order_by(field, direction) for every pair when order_by is not
\* None, query.limit(limit) when limit is not None, query.offset(offset) when
\* offset is not None
QueryWindow(order_by, limit, offset) ==
    [order |-> IF order_by.given THEN order_by.by ELSE <<>>,
     limited |-> limit # NoNumber, limit |-> limit,
     offset |-> IF offset # NoNumber THEN offset ELSE 0]

\* the backend's order on two documents under an order_by list: the first pair
\* on which they differ decides, in its direction
RECURSIVE DocLess(_, _, _)
DocLess(a, b, order) ==
    IF order = <<>> THEN FALSE
    ELSE LET field == order[1][1]
             up == order[1][2] = "ASCENDING"
         IN  IF a.body[field] = b.body[field] THEN DocLess(a, b, Tail(order))
             ELSE IF up THEN ValLess(a.body[field], b.body[field])
             ELSE ValLess(b.body[field], a.body[field])

\* the sequences in which the backend may stream the rows of a query: documents
\* without an ordered field are left out, the rest come in the order asked
\* for, offset documents are skipped and at most limit are streamed
BackendStreamWindow(rows, window) ==
    LET have == {d \in rows : \A n \in 1..Len(window.order) :
                                window.order[n][1] \in DOMAIN d.body}
        last_ == IF window.limited /\ window.offset + window.limit < Cardinality(have)
                 THEN window.offset + window.limit ELSE Cardinality(have)
    IN  {SubSeq(s, window.offset + 1, last_) :
           s \in {o \in Orderings(have) :
                    \A m, n \in 1..Len(o) : m < n => ~DocLess(o[n], o[m], window.order)}}

\* the documents of a sequence
Range(s) == {s[n] : n \in 1..Len(s)}

\* type(inst).find(filter_, order_by, limit, offset, transaction)
DoFindWith(filters, orders, limits, offsets, txs) ==
    /\ inst # NoInst
    /\ \E mode \in {"sync", "async"}, filter_ \in filters, order_by \in orders,
          limit \in limits, offset \in offsets, tx \in txs :
         /\ ModeOk(mode)
         /\ LET q == InTransaction(IF mode = "sync" THEN Find(inst.cls, filter_)
                                   ELSE AsyncFind(inst.cls, filter_), tx)
            IN  \E streamed \in BackendStreamWindow(q.rows,
                                                    QueryWindow(order_by, limit, offset)),
                   walk \in Walks(filter_) :
                  LET w == [q EXCEPT !.rows = Range(streamed)]
                      r == Hydrate(inst.cls, w, streamed)
                  IN  /\ Apply(r, [Op("find", mode, inst.cls, r) EXCEPT
                                     !.filter = filter_,
                                     !.order_by = order_by,
                                     !.limit = limit,
                                     !.offset = offset,
                                     !.tx = tx,
                                     !.named = IF q.outcome = "ValueError"
                                               THEN FirstUnsupported(walk) ELSE "",
                                     !.warned = Warnings(inst.cls, w)])
                      /\ UNCHANGED inst

\* type(inst).find(filter_), filter_ one of filters
DoFindIn(filters) == DoFindWith(filters, {NoOrder}, {NoNumber}, {NoNumber}, {FALSE})

DoFind == DoFindIn(Filters)

\* find_one: find with limit=1, ModelNotFoundError when nothing is returned
FindOneFrom(cls, q, first) ==
    IF q.outcome # "ok" THEN q
    ELSE IF first = {} THEN [q EXCEPT !.outcome = "ModelNotFoundError"]
    ELSE Hydrate(cls, [q EXCEPT !.rows = first], <<CHOOSE d \in first : TRUE>>)

\* type(inst).find_one(filter_, transaction), filter_ one of filters
DoFindOneWith(filters, txs) ==
    /\ inst # NoInst
    /\ \E mode \in {"sync", "async"}, filter_ \in filters, tx \in txs :
         /\ ModeOk(mode)
         /\ LET q == InTransaction(IF mode = "sync" THEN Find(inst.cls, filter_)
                                   ELSE AsyncFind(inst.cls, filter_), tx)
            IN  \E first \in (IF q.rows = {} THEN {{}} ELSE {{d} : d \in q.rows}),
                   walk \in Walks(filter_) :
                  LET r == FindOneFrom(inst.cls, q, first)
                  IN  /\ Apply(r, [Op("find_one", mode, inst.cls, r) EXCEPT
                                     !.filter = filter_,
                                     !.limit = 1,
                                     !.tx = tx,
                                     !.named = IF q.outcome = "ValueError"
                                               THEN FirstUnsupported(walk) ELSE "",
                                     !.warned = Warnings(inst.cls, [q EXCEPT !.rows = first])])
                      /\ UNCHANGED inst

\* type(inst).find_one(filter_), filter_ one of filters
DoFindOneIn(filters) == DoFindOneWith(filters, {FALSE})

DoFindOne == DoFindOneIn(Filters)

\* type(inst).truncate_collection()
DoTruncateCollection ==
    /\ inst # NoInst
    /\ \E mode \in {"sync", "async"} :
         /\ ModeOk(mode)
         /\ LET r == IF mode = "sync" THEN TruncateCollection(inst.cls)
                     ELSE AsyncTruncateCollection(inst.cls)
            IN  /\ Apply(r, Op("truncate_collection", mode, inst.cls, r))
                /\ UNCHANGED inst

\* the staged writes applied to the store, in order
RECURSIVE ApplyWrites(_, _)
ApplyWrites(store, writes) ==
    IF writes = <<>> THEN store
    ELSE LET w == Head(writes)
         IN  ApplyWrites(IF w.kind = "set"
                         THEN BackendSet(store, w.db, w.col, w.id, w.body)
                         ELSE BackendDelete(store, w.db, w.col, w.id),
                         Tail(writes))

\* the caller's transaction commits
Commit ==
    /\ staged # <<>>
    /\ Step
    /\ Cardinality(ApplyWrites(docs, staged)) <= MaxDocs
    /\ docs' = ApplyWrites(docs, staged)
    /\ staged' = <<>>
    /\ last' = [NoOp EXCEPT !.op = "commit"]
    /\ UNCHANGED <<legacy, registry, inst, pin, pout, admin, tasks>>

Next ==
    \/ Configure
    \/ Add
    \/ Construct
    \/ DoSave
    \/ DoDelete
    \/ DoReload
    \/ DoGetByDocId
    \/ DoFind
    \/ DoFindOne
    \/ DoTruncateCollection
    \/ Commit

Spec == Init /\ [][Next]_vars

----------------------------------------------------------------------------
(* The validator applied to generated identifiers *)

MaxShortLen == 3

IdAlphabet == {SLASH, UNDERSCORE, DOT, CH_A, CH_ARING, CH_GRIN}

ShortIds == UNION {[1..n -> IdAlphabet] : n \in 0..MaxShortLen}

\* identifiers at the byte limit, and the shapes the tests list
BoundaryIds ==
    { Rep(CH_A, MaxIdBytes), Rep(CH_A, MaxIdBytes + 1),
      Rep(CH_ARING, MaxIdBytes \div 2), Rep(CH_ARING, (MaxIdBytes \div 2) + 1),
      Rep(CH_GRIN, MaxIdBytes \div 4), Rep(CH_GRIN, (MaxIdBytes \div 4) + 1),
      Rep(CH_ARING, MaxIdBytes - 1),
      <<UNDERSCORE, UNDERSCORE>> \o Rep(CH_A, MaxIdBytes - 4) \o <<UNDERSCORE, UNDERSCORE>>,
      <<UNDERSCORE, UNDERSCORE, UNDERSCORE, UNDERSCORE>>,
      <<UNDERSCORE, UNDERSCORE, CH_A, CH_A, CH_A, UNDERSCORE, UNDERSCORE>>,
      <<UNDERSCORE, UNDERSCORE, CH_GRIN, UNDERSCORE, UNDERSCORE>>,
      <<CH_A, UNDERSCORE, UNDERSCORE, CH_A, UNDERSCORE, UNDERSCORE, CH_A>>,
      <<CH_A, CH_A, CH_A, SLASH, CH_A, CH_A, CH_A>> }

InitValidate ==
    /\ legacy = InitialLegacy
    /\ registry = InitialRegistry
    /\ docs = {}
    /\ staged = <<>>
    /\ inst = NoInst
    /\ ops = 0
    /\ tasks = <<>>
    /\ last = NoOp
    /\ pin \in ShortIds \cup BoundaryIds
    /\ pout = "none"
    /\ admin = NoAdmin

Validate ==
    /\ pout = "none"
    /\ pout' = ValidateDocumentId(pin)
    /\ UNCHANGED <<legacy, registry, docs, staged, inst, ops, last, pin, admin, tasks>>

NextValidate == Validate

SpecValidate == InitValidate /\ [][NextValidate]_vars

\* the five identifier rules of the data model, each on its own
RuleLength(s) ==
    Cardinality({i \in 1..Len(s) : s[i] < 128})
      + 2 * Cardinality({i \in 1..Len(s) : s[i] >= 128 /\ s[i] < 2048})
      + 3 * Cardinality({i \in 1..Len(s) : s[i] >= 2048 /\ s[i] < 65536})
      + 4 * Cardinality({i \in 1..Len(s) : s[i] >= 65536}) <= 1500
RuleNoSlash(s) == \A i \in 1..Len(s) : s[i] # 47
RuleNotReserved(s) ==
    ~(Len(s) >= 4 /\ SubSeq(s, 1, 2) = <<95, 95>> /\ SubSeq(s, Len(s) - 1, Len(s)) = <<95, 95>>)
RuleNotDots(s) == s # <<46>> /\ s # <<46, 46>>
RuleNotEmpty(s) == Len(s) > 0
FiveRules(s) ==
    RuleLength(s) /\ RuleNoSlash(s) /\ RuleNotReserved(s) /\ RuleNotDots(s) /\ RuleNotEmpty(s)

\* C3: _validate_document_id accepts an identifier iff it satisfies all five
\* rules together (at most 1500 UTF-8 bytes, no "/", not "__...__" of length
\* >= 4, neither "." nor "..", not empty); otherwise InvalidDocumentID.
C3_ValidateIffFiveRules ==
    pout # "none" => ((pout = "ok") <=> FiveRules(pin))

\* an identifier of 751 two-byte characters (1502 bytes) has been rejected
C3_Witness ==
    /\ pout = "too_long"
    /\ Len(pin) <= 1500
    /\ Utf8Len(pin) = 1502

----------------------------------------------------------------------------
(* The record mapper applied to generated instances *)

\* the values a field of the record type takes
FieldValues(cls, f) ==
    (IF cls.fields[f].type = "int" THEN {IntVal(0), IntVal(2)}
     ELSE {STR_EMPTY, STR_X, STR_Y})
      \cup (IF cls.fields[f].optional THEN {None} ELSE {})

AllValues == {IntVal(0), IntVal(2), STR_EMPTY, STR_X, STR_Y, None}

\* the keyword arguments the record type's constructor accepts
KwargsOf(cls) ==
    {k \in UNION {[S -> AllValues] :
                    S \in {T \in SUBSET FieldNames(cls) :
                             \A f \in FieldNames(cls) : cls.fields[f].required => f \in T}} :
        \A f \in DOMAIN k : k[f] \in FieldValues(cls, f)}

MapperClasses == {Profile, CustomIDModel, CustomIDConflictModel, AliasUser, UserStatsFor1}

MapperInstances == UNION {{New(cls, k) : k \in KwargsOf(cls)} : cls \in MapperClasses}

InitMapper ==
    /\ legacy = InitialLegacy
    /\ registry = InitialRegistry
    /\ docs = {}
    /\ staged = <<>>
    /\ inst \in MapperInstances
    /\ ops = 0
    /\ tasks = <<>>
    /\ last = NoOp
    /\ pin = <<>>
    /\ pout = "none"
    /\ admin = NoAdmin

\* the payload save writes for inst, read back from the document doc_id
MapThereAndBack ==
    /\ last.op = "none"
    /\ \E exclude_unset \in BOOLEAN, exclude_none \in BOOLEAN, doc_id \in {STR_X, STR_A1} :
         LET data == ToStorage(inst, exclude_unset, exclude_none)
             model == FromStorage(inst.cls, doc_id, data)
         IN  last' = [NoOp EXCEPT !.op = "to_storage", !.cls = inst.cls, !.id = doc_id,
                                  !.exclude_unset = exclude_unset,
                                  !.exclude_none = exclude_none,
                                  !.data = data, !.outcome = model.outcome,
                                  !.found = IF model.outcome = "ok" THEN <<model.inst>>
                                            ELSE <<>>,
                                  !.before = [docs |-> docs, staged |-> staged,
                                              inst |-> inst]]
    /\ UNCHANGED <<legacy, registry, docs, staged, inst, ops, pin, pout, admin, tasks>>

NextMapper == MapThereAndBack

SpecMapper == InitMapper /\ [][NextMapper]_vars

----------------------------------------------------------------------------
(* Queries over the products of test_find *)

MaxOperand == 4

STR_A == <<97>>                                                  \* "a"
STR_B == <<98>>                                                  \* "b"
STR_C == <<99>>                                                  \* "c"
STR_D == <<100>>                                                 \* "d"

\* TEST_PRODUCTS
TEST_PRODUCTS ==
    { [product_id |-> STR_A, stock |-> IntVal(0)],
      [product_id |-> STR_B, stock |-> IntVal(1)],
      [product_id |-> STR_C, stock |-> IntVal(2)],
      [product_id |-> STR_D, stock |-> IntVal(3)] }

\* the store after create_product(**p) for every p of TEST_PRODUCTS, each
\* saved under a generated identifier, and one profile saved next to them
ProductDocs ==
    {Doc("p1", STR_T \o STR_PRODUCTS, <<65, p.stock[2]>>, p) : p \in TEST_PRODUCTS}
      \cup {Doc("p1", STR_T \o STR_PROFILES, STR_X,
                [name |-> STR_Y, photo_url |-> None])}

ComparisonOps == {"<", "<=", "==", "!=", ">", ">="}

Operands == {IntVal(n) : n \in 0..MaxOperand}

\* operator maps of one or two (operator, operand) pairs
OperatorMaps ==
    UNION {[S -> Operands] : S \in {T \in SUBSET ComparisonOps : Cardinality(T) \in {1, 2}}}

\* the filters asked of the products
StockFilters ==
    {<<>>}
      \cup {[stock |-> Literal(v)] : v \in Operands}
      \cup {[stock |-> OperatorMap(m)] : m \in OperatorMaps}
      \cup {[stock |-> OperatorMap(<<>>)]}
      \cup {[stock |-> OperatorMap([x \in {">="} |-> IntVal(1)]),
             product_id |-> Literal(s)] : s \in {STR_B, STR_D}}
      \cup {[stock |-> OperatorMap([x \in {"<>"} |-> IntVal(1)])]}

InitFind ==
    /\ \E kind \in {"sync", "async"} :
         /\ legacy = ConfigureLegacy(kind, "p1", STR_T)
         /\ registry = ConfigureRegistry(InitialRegistry, kind, "p1", STR_T)
    /\ docs = ProductDocs
    /\ staged = <<>>
    /\ inst = New(Product, [product_id |-> STR_D, stock |-> IntVal(3)])
    /\ ops = 0
    /\ tasks = <<>>
    /\ last = NoOp
    /\ pin = <<>>
    /\ pout = "none"
    /\ admin = NoAdmin

\* filters with an operator outside FIND_TYPES: alone, beside a supported
\* operator of the same entry, in the entry after a literal one, in the entry
\* after a supported operator map, and two of them
UnsupportedFilters ==
    { [stock |-> OperatorMap([x \in {">=", "<>"} |-> IntVal(1)])],
      [product_id |-> Literal(STR_B),
       stock |-> OperatorMap([x \in {"<>"} |-> IntVal(1)])],
      [product_id |-> OperatorMap([x \in {"=="} |-> STR_B]),
       stock |-> OperatorMap([x \in {"=>"} |-> IntVal(1)])],
      [stock |-> OperatorMap([x \in {"<>", "=>", "<"} |-> IntVal(1)])] }

\* one query of the products
FindProducts == last.op = "none" /\ DoFindIn(StockFilters \cup UnsupportedFilters)

\* one find_one on the products
FindOneProduct ==
    /\ last.op = "none"
    /\ DoFindOneIn(UnsupportedFilters
                     \cup {<<>>, [stock |-> Literal(IntVal(MaxOperand))],
                            [stock |-> OperatorMap([x \in {"<>"} |-> IntVal(1)])]})

MaxWindow == 3

\* the filters, orders, limits and offsets of the paged queries
PageFilters ==
    { <<>>,
      [stock |-> OperatorMap([x \in {">="} |-> IntVal(1)])],
      [product_id |-> Literal(STR_B)] }

ProductOrders ==
    { NoOrder,
      OrderBy(<<>>),
      OrderBy(<< <<"stock", "ASCENDING">> >>),
      OrderBy(<< <<"stock", "DESCENDING">> >>),
      OrderBy(<< <<"product_id", "DESCENDING">>, <<"stock", "ASCENDING">> >>) }

Windows == {NoNumber} \cup 0..MaxWindow

\* one paged query of the products
PageProducts ==
    /\ last.op = "none"
    /\ DoFindWith(PageFilters, ProductOrders, Windows, Windows, {FALSE})

NextFind == FindProducts \/ FindOneProduct \/ PageProducts

SpecFind == InitFind /\ [][NextFind]_vars

----------------------------------------------------------------------------
(* The operations called with and without the caller's transaction *)

MaxTxOps == 3

\* a configured application whose store holds one saved profile
InitTx ==
    /\ \E kind \in {"sync", "async"} :
         /\ legacy = ConfigureLegacy(kind, "p1", STR_T)
         /\ registry = ConfigureRegistry(InitialRegistry, kind, "p1", STR_T)
    /\ docs = BackendSet({}, "p1", STR_T \o Profile.collection, STR_X,
                         ToStorage(New(Profile, [id |-> STR_X, name |-> STR_Y]),
                                   FALSE, FALSE))
    /\ staged = <<>>
    /\ inst = NoInst
    /\ ops = 0
    /\ tasks = <<>>
    /\ last = NoOp
    /\ pin = <<>>
    /\ pout = "none"
    /\ admin = NoAdmin

\* the instances the transactional operations run on
TxCandidates ==
    { New(Profile, <<>>),
      New(Profile, [id |-> STR_X, name |-> None]),
      New(Profile, [id |-> STR_EMPTY]),
      New(CustomIDModel, [bar |-> STR_Y]),
      New(MissingCollectionUser, [id |-> STR_X, name |-> STR_Y]),
      New(UserStatsFor1, [id |-> STR_X, purchases |-> IntVal(2)]) }

TxBudget == ops < MaxTxOps

TxConstruct ==
    /\ TxBudget /\ Step
    /\ \E i \in TxCandidates : inst' = i
    /\ last' = [NoOp EXCEPT !.op = "construct"]
    /\ UNCHANGED <<legacy, registry, docs, staged, pin, pout, admin, tasks>>

TxSave == TxBudget /\ DoSave

TxDelete == TxBudget /\ DoDelete

TxReload == TxBudget /\ DoReloadIn(BOOLEAN)

TxGetByDocId == TxBudget /\ DoGetByDocIdIn(BOOLEAN)

TxFind == TxBudget /\ DoFindWith(Filters, {NoOrder}, {NoNumber}, {NoNumber}, BOOLEAN)

TxFindOne == TxBudget /\ DoFindOneWith(Filters, BOOLEAN)

TxCommit == TxBudget /\ Commit

NextTx ==
    \/ TxConstruct
    \/ TxSave
    \/ TxDelete
    \/ TxReload
    \/ TxGetByDocId
    \/ TxFind
    \/ TxFindOne
    \/ TxCommit

SpecTx == InitTx /\ [][NextTx]_vars

----------------------------------------------------------------------------
(* Composite indexes and TTL policies *)

\* "proj"
STR_PROJ ==
    <<112, 114, 111, 106>>

\* "projects/"
STR_PROJECTS ==
    <<112, 114, 111, 106, 101, 99, 116, 115, 47>>

\* "/databases/"
STR_DATABASES ==
    <<47, 100, 97, 116, 97, 98, 97, 115, 101, 115, 47>>

\* "/collectionGroups/"
STR_COLLECTION_GROUPS ==
    <<47, 99, 111, 108, 108, 101, 99, 116, 105, 111, 110, 71, 114, 111, 117, 112, 115, 47>>

\* "/indexes/"
STR_INDEXES ==
    <<47, 105, 110, 100, 101, 120, 101, 115, 47>>

\* "modelWithIndexes"
STR_MODEL_WITH_INDEXES ==
    <<109, 111, 100, 101, 108, 87, 105, 116, 104, 73, 110, 100, 101, 120, 101, 115>>

\* "modelWithIndexes2"
STR_MODEL_WITH_INDEXES_2 ==
    <<109, 111, 100, 101, 108, 87, 105, 116, 104, 73, 110, 100, 101, 120, 101, 115, 50>>

\* "anotherModel"
STR_ANOTHER_MODEL ==
    <<97, 110, 111, 116, 104, 101, 114, 77, 111, 100, 101, 108>>

\* "modelWithoutIndexes"
STR_MODEL_WITHOUT_INDEXES ==
    <<109, 111, 100, 101, 108, 87, 105, 116, 104, 111, 117, 116, 73, 110, 100, 101, 120, 101, 115>>

\* "expiringModel"
STR_EXPIRING_MODEL ==
    <<101, 120, 112, 105, 114, 105, 110, 103, 77, 111, 100, 101, 108>>

\* common.IndexField(name, order), a tuple
IndexField(name, order) == <<name, order>>

\* common.IndexDefinition(query_scope, fields), a tuple of a scope and a tuple
IndexDefinition(query_scope, fields) == [query_scope |-> query_scope, fields |-> fields]

\* common.collection_index(*fields)
collection_index(fields) == IndexDefinition("COLLECTION", fields)

\* common.collection_group_index(*fields)
collection_group_index(fields) == IndexDefinition("COLLECTION_GROUP", fields)

\* __ttl_field__ = None
NoField == ""

\* a record type as the set-up functions see it: __collection__,
\* __composite_indexes__ (None and () alike as the empty tuple), __ttl_field__
\* and __db_config__
AdminClass(name, collection, composite_indexes, ttl_field) ==
    [name |-> name, kind |-> "model", collection |-> collection,
     db_config |-> STR_DEFAULT, composite_indexes |-> composite_indexes,
     ttl_field |-> ttl_field]

NameAscAgeDesc ==
    collection_index(<<IndexField("name", "ASCENDING"), IndexField("age", "DESCENDING")>>)

AgeDescNameAsc ==
    collection_index(<<IndexField("age", "DESCENDING"), IndexField("name", "ASCENDING")>>)

GroupNameAscAgeDesc ==
    collection_group_index(<<IndexField("name", "ASCENDING"),
                             IndexField("age", "DESCENDING")>>)

\* class ModelWithIndexes(BaseModelWithIndexes), two indexes on the same fields
\* in opposite order
ModelWithIndexes ==
    AdminClass("ModelWithIndexes", STR_MODEL_WITH_INDEXES,
               <<NameAscAgeDesc, AgeDescNameAsc>>, NoField)

\* a type whose collection name begins with that of ModelWithIndexes
ModelWithIndexes2 ==
    AdminClass("ModelWithIndexes2", STR_MODEL_WITH_INDEXES_2,
               <<NameAscAgeDesc>>, "expire")

\* a type of another collection declaring the same index
AnotherModel ==
    AdminClass("AnotherModel", STR_ANOTHER_MODEL,
               <<NameAscAgeDesc, GroupNameAscAgeDesc>>, NoField)

\* class ModelWithoutIndexes(AsyncModel)
ModelWithoutIndexes ==
    AdminClass("ModelWithoutIndexes", STR_MODEL_WITHOUT_INDEXES, <<>>, NoField)

\* class ExpiringModel(AsyncModel): __ttl_field__ = "expire"
ExpiringModel == AdminClass("ExpiringModel", STR_EXPIRING_MODEL, <<>>, "expire")

\* s.startswith(prefix)
StartsWith(s_, prefix) ==
    Len(prefix) <= Len(s_) /\ SubSeq(s_, 1, Len(prefix)) = prefix

\* f"projects/{project}/databases/{database}/collectionGroups/{collection_group}"
IndexPath(project, database, collection_group) ==
    STR_PROJECTS \o project \o STR_DATABASES \o database
      \o STR_COLLECTION_GROUPS \o collection_group

\* an index as list_indexes returns it: its parent, its id, its scope and its
\* fields, the implicit __name__ field last
RawIndex(parent, id, query_scope, fields) ==
    [parent |-> parent, id |-> id, query_scope |-> query_scope, fields |-> fields]

\* raw_index.name
RawName(raw_index) == raw_index.parent \o STR_INDEXES \o raw_index.id

\* the backend answers create_index: the index exists from then on, the
\* __name__ field appended in the direction of its last field
BackendCreateIndex(indexes, path, index) ==
    indexes \cup
      {RawIndex(path, <<49 + Cardinality(indexes)>>, index.query_scope,
                Append(index.fields,
                       IndexField("__name__", index.fields[Len(index.fields)][2])))}

\* a request sent to the admin backend
Request(kind, path, index) == [kind |-> kind, path |-> path, index |-> index]

NoIndex == IndexDefinition("", <<>>)

\* get_existing_indexes that takes every listed index for one of the path
GetExistingIndexesUnfiltered(listed, path) ==
    {IndexDefinition(raw_index.query_scope,
                     SelectSeq(raw_index.fields, LAMBDA f : f[1] # "__name__")) :
        raw_index \in listed}

\* get_existing_indexes(client, path): the listed indexes whose name starts
\* with path, without their __name__ fields
GetExistingIndexes(listed, path) ==
    {IndexDefinition(raw_index.query_scope,
                     SelectSeq(raw_index.fields, LAMBDA f : f[1] # "__name__")) :
        raw_index \in {r \in listed : StartsWith(RawName(r), path)}}

\* what a run has done so far: the exception raised ("ok" for none), the
\* backend, the requests sent and the operations collected
Run(outcome, backend, requests, operations) ==
    [outcome |-> outcome, admin |-> backend, requests |-> requests,
     operations |-> operations]

\* the collection group of a type: the non-blocking set-up calls
\* configuration.get_collection_name(model, config_name=config_name), the
\* blocking one calls it with name=config_name, a keyword it does not take
CollectionGroup(mode, model) ==
    IF mode = "sync" THEN [outcome |-> "TypeError", name |-> <<>>]
    ELSE ConfigurationGetCollectionName(model, model.db_config)

\* for index in new_indexes: create_composite_index and operations.append, the
\* set iterated in the order of rank
RECURSIVE CreateEach(_, _, _, _)
CreateEach(run, new_indexes, path, rank) ==
    IF rank = <<>> THEN run
    ELSE IF Head(rank) \notin new_indexes
    THEN CreateEach(run, new_indexes, path, Tail(rank))
    ELSE CreateEach(
           Run("ok",
               [run.admin EXCEPT
                  !.indexes = BackendCreateIndex(run.admin.indexes, path, Head(rank))],
               Append(run.requests, Request("create_index", path, Head(rank))),
               Append(run.operations, Request("create_index", path, Head(rank)))),
           new_indexes, path, Tail(rank))

\* the body of set_up_composite_indexes' loop for one model; failing holds the
\* collections for which the backend raises
IndexesOfModel(mode, model, run, project, database, failing, rank) ==
    IF model.composite_indexes = <<>> THEN run
    ELSE LET collection_group == CollectionGroup(mode, model)
             path == IndexPath(project, database, collection_group.name)
             indexes_in_db == GetExistingIndexes(run.admin.indexes, path)
             model_indexes == {model.composite_indexes[n] :
                                 n \in 1..Len(model.composite_indexes)}
             new_indexes == model_indexes \ indexes_in_db
             listed == [run EXCEPT
                          !.requests = Append(@, Request("list_indexes", path, NoIndex))]
         IN  IF collection_group.outcome # "ok"
             THEN [run EXCEPT !.outcome = collection_group.outcome]
             ELSE IF model.collection \in failing
             THEN [listed EXCEPT !.outcome = "GoogleAPICallError"]
             ELSE CreateEach(listed, new_indexes, path, rank)

\* set_up_composite_indexes(gcloud_project, models, database, client): an
\* exception ends the loop
RECURSIVE SetUpCompositeIndexes(_, _, _, _, _, _, _)
SetUpCompositeIndexes(mode, models, run, project, database, failing, rank) ==
    IF models = <<>> \/ run.outcome # "ok" THEN run
    ELSE SetUpCompositeIndexes(
           mode, Tail(models),
           IndexesOfModel(mode, Head(models), run, project, database, failing, rank),
           project, database, failing, rank)

\* model.get_collection_name() of the blocking and the non-blocking classes
ClassGetCollectionName(mode, model) ==
    IF mode = "sync"
    THEN IF Falsy(model.collection) THEN [outcome |-> "CollectionNotDefined", name |-> <<>>]
         ELSE IF legacy.kind = "unset" THEN [outcome |-> "KeyError", name |-> <<>>]
         ELSE [outcome |-> "ok", name |-> legacy.prefix \o model.collection]
    ELSE AsyncGetCollectionName(model.db_config, model.collection, model.collection)

\* field_obj.ttl_config.state of get_field: a field never configured is
\* STATE_UNSPECIFIED
FieldState(ttl, path) ==
    IF path \in DOMAIN ttl THEN ttl[path] ELSE "STATE_UNSPECIFIED"

\* the backend answers update_field: the field's TTL state is the one sent
BackendUpdateField(ttl, path, state) ==
    [p \in DOMAIN ttl \cup {path} |-> IF p = path THEN state ELSE ttl[p]]

\* the loop body that also updates a policy in need of repair
TtlOfModelRepairing(mode, model, run, failing) ==
    IF model.ttl_field = NoField THEN run
    ELSE LET collection == ClassGetCollectionName(mode, model)
             path == <<collection.name, model.ttl_field>>
             got == [run EXCEPT !.requests = Append(@, Request("get_field", path, NoIndex))]
         IN  IF collection.outcome # "ok" THEN [run EXCEPT !.outcome = collection.outcome]
             ELSE IF model.collection \in failing
             THEN [got EXCEPT !.outcome = "GoogleAPICallError"]
             ELSE IF FieldState(run.admin.ttl, path) \in {"STATE_UNSPECIFIED", "NEEDS_REPAIR"}
             THEN Run("ok",
                      [run.admin EXCEPT !.ttl = BackendUpdateField(@, path, "CREATING")],
                      Append(got.requests, Request("update_field", path, NoIndex)),
                      Append(run.operations, Request("update_field", path, NoIndex)))
             ELSE got

\* the body of set_up_ttl_policies' loop for one model: get_field, and
\* update_field with the state CREATING when the state is STATE_UNSPECIFIED
TtlOfModel(mode, model, run, failing) ==
    IF model.ttl_field = NoField THEN run
    ELSE LET collection == ClassGetCollectionName(mode, model)
             path == <<collection.name, model.ttl_field>>
             got == [run EXCEPT !.requests = Append(@, Request("get_field", path, NoIndex))]
         IN  IF collection.outcome # "ok" THEN [run EXCEPT !.outcome = collection.outcome]
             ELSE IF model.collection \in failing
             THEN [got EXCEPT !.outcome = "GoogleAPICallError"]
             ELSE IF FieldState(run.admin.ttl, path) = "STATE_UNSPECIFIED"
             THEN Run("ok",
                      [run.admin EXCEPT !.ttl = BackendUpdateField(@, path, "CREATING")],
                      Append(got.requests, Request("update_field", path, NoIndex)),
                      Append(run.operations, Request("update_field", path, NoIndex)))
             ELSE got

\* set_up_ttl_policies(gcloud_project, models, database, client)
RECURSIVE SetUpTtlPolicies(_, _, _, _)
SetUpTtlPolicies(mode, models, run, failing) ==
    IF models = <<>> \/ run.outcome # "ok" THEN run
    ELSE SetUpTtlPolicies(mode, Tail(models),
                          TtlOfModel(mode, Head(models), run, failing), failing)

\* set_up_composite_indexes_and_ttl_policies: ops of the indexes, extended by
\* the ops of the policies
SetUpCompositeIndexesAndTtlPolicies(mode, models, run, project, database, failing, rank) ==
    SetUpTtlPolicies(
      mode, models,
      SetUpCompositeIndexes(mode, models, run, project, database, failing, rank),
      failing)

\* what the caller gets back: the list of operations, or nothing when the run raised
Returned(run) == IF run.outcome = "ok" THEN run.operations ELSE <<>>

MaxAdminOps == 2

\* the batches of record types the application sets up
Batches ==
    { <<ModelWithIndexes>>,
      <<ModelWithoutIndexes>>,
      <<ExpiringModel>>,
      <<AnotherModel, ModelWithIndexes>>,
      <<ModelWithIndexes2, ModelWithIndexes>>,
      <<ModelWithIndexes, ExpiringModel>>,
      <<ExpiringModel, ModelWithIndexes2>> }

\* the collections for which the backend may fail during a run
Failures ==
    { {}, {STR_MODEL_WITH_INDEXES}, {STR_EXPIRING_MODEL} }

\* the orders in which Python may iterate a set of index definitions
Ranks ==
    { <<NameAscAgeDesc, AgeDescNameAsc, GroupNameAscAgeDesc>>,
      <<GroupNameAscAgeDesc, AgeDescNameAsc, NameAscAgeDesc>> }

\* a configured application; the backend holds no index yet, or the two
\* indexes of test_existing_indexes_are_skipped; the expiring field of
\* ExpiringModel is in any of the four TTL states
InitAdmin ==
    /\ \E kind \in {"sync", "async"} :
         /\ legacy = ConfigureLegacy(kind, "p1", STR_T)
         /\ registry = ConfigureRegistry(InitialRegistry, kind, "p1", STR_T)
    /\ docs = {}
    /\ staged = <<>>
    /\ inst = NoInst
    /\ ops = 0
    /\ tasks = <<>>
    /\ last = NoOp
    /\ pin = <<>>
    /\ pout = "none"
    /\ \E indexes \in
            { {},
              BackendCreateIndex(
                BackendCreateIndex({}, IndexPath(STR_PROJ, STR_DEFAULT,
                                                 STR_T \o STR_MODEL_WITH_INDEXES),
                                   NameAscAgeDesc),
                IndexPath(STR_PROJ, STR_DEFAULT, STR_T \o STR_MODEL_WITH_INDEXES),
                AgeDescNameAsc) },
          state \in {"STATE_UNSPECIFIED", "CREATING", "ACTIVE", "NEEDS_REPAIR"} :
         admin = [indexes |-> indexes,
                  ttl |-> BackendUpdateField(<<>>, <<STR_T \o STR_EXPIRING_MODEL, "expire">>,
                                             state)]

AdminBudget == ops < MaxAdminOps

\* the state a set-up run leaves
ApplyRun(op, mode, models, failing, run) ==
    /\ AdminBudget /\ Step
    /\ admin' = run.admin
    /\ last' = [NoOp EXCEPT !.op = op, !.mode = mode, !.models = models,
                            !.failing = failing, !.outcome = run.outcome,
                            !.calls = run.requests, !.found = Returned(run),
                            !.before = [docs |-> docs, staged |-> staged,
                                        inst |-> inst, admin |-> admin]]
    /\ UNCHANGED <<legacy, registry, docs, staged, inst, pin, pout, tasks>>

\* set_up_composite_indexes / async_set_up_composite_indexes(gcloud_project="proj", models, client)
DoSetUpCompositeIndexes ==
    \E mode \in {"sync", "async"}, models \in Batches, failing \in Failures, rank \in Ranks :
      /\ ModeOk(mode)
      /\ ApplyRun("set_up_composite_indexes", mode, models, failing,
                  SetUpCompositeIndexes(mode, models, Run("ok", admin, <<>>, <<>>),
                                        STR_PROJ, STR_DEFAULT, failing, rank))

\* set_up_ttl_policies / async_set_up_ttl_policies(gcloud_project="proj", models, client)
DoSetUpTtlPolicies ==
    \E mode \in {"sync", "async"}, models \in Batches, failing \in Failures :
      /\ ModeOk(mode)
      /\ ApplyRun("set_up_ttl_policies", mode, models, failing,
                  SetUpTtlPolicies(mode, models, Run("ok", admin, <<>>, <<>>), failing))

\* set_up_composite_indexes_and_ttl_policies(gcloud_project="proj", models, client)
DoSetUpCompositeIndexesAndTtlPolicies ==
    \E mode \in {"sync", "async"}, models \in Batches, failing \in Failures, rank \in Ranks :
      /\ ModeOk(mode)
      /\ ApplyRun("set_up_composite_indexes_and_ttl_policies", mode, models, failing,
                  SetUpCompositeIndexesAndTtlPolicies(
                    mode, models, Run("ok", admin, <<>>, <<>>),
                    STR_PROJ, STR_DEFAULT, failing, rank))

\* the backend moves a policy on by itself: a policy being created becomes
\* active or in need of repair, an active one may come to need repair
BackendMovesTtl ==
    /\ AdminBudget /\ Step
    /\ \E path \in DOMAIN admin.ttl, state \in {"ACTIVE", "NEEDS_REPAIR"} :
         /\ \/ admin.ttl[path] = "CREATING"
            \/ admin.ttl[path] = "ACTIVE" /\ state = "NEEDS_REPAIR"
         /\ admin' = [admin EXCEPT !.ttl[path] = state]
    /\ last' = [NoOp EXCEPT !.op = "backend"]
    /\ UNCHANGED <<legacy, registry, docs, staged, inst, pin, pout, tasks>>

NextAdmin ==
    \/ DoSetUpCompositeIndexes
    \/ DoSetUpTtlPolicies
    \/ DoSetUpCompositeIndexesAndTtlPolicies
    \/ BackendMovesTtl

SpecAdmin == InitAdmin /\ [][NextAdmin]_vars

----------------------------------------------------------------------------
(* Named configurations: registrations, accessors and the operations of   *)
(* record types bound to them                                              *)

MaxCfgOps == 3

STR_BILLING == <<98, 105, 108, 108, 105, 110, 103>>              \* "billing"
STR_ACCOUNTS == <<97, 99, 99, 111, 117, 110, 116, 115>>          \* "accounts"
STR_B_DASH == <<98, 45>>                                         \* "b-"

\* full_async_flow.new_way: class BillingAccount, __db_config__ = "billing",
\* __collection__ = "accounts", name: str
BillingAccount ==
    [Class("BillingAccount", "model", STR_ACCOUNTS, "id",
           [id |-> Field("id", TRUE, FALSE, None),
            name |-> Field("name", FALSE, TRUE, None)], TRUE)
       EXCEPT !.db_config = STR_BILLING]

\* the projects registrations name; a handle constructed on first use is named
\* by its project, a pre-built one by the name the application gave it
Projects == {"p1", "p2"}

\* the arguments configuration.add is called with
Registration(name, project, prefix, client, async_client) ==
    [name |-> name, item |-> ConfigItem(prefix, project, client, async_client)]

Registrations ==
    { Registration(STR_DEFAULT, "p1", STR_T, NoClient, NoClient),
      Registration(STR_BILLING, "p2", STR_B_DASH, NoClient, NoClient),
      Registration(STR_BILLING, "p1", STR_T, NoClient, NoClient),
      Registration(STR_BILLING, "p2", STR_B_DASH, "c2", "c2"),
      Registration(STR_BILLING, NoProject, STR_B_DASH, NoClient, NoClient) }

\* the names the application looks up
ConfigNames == {STR_DEFAULT, STR_BILLING, STR_X}

\* the instances the application constructs
CfgCandidates ==
    { New(BillingAccount, [id |-> STR_X, name |-> STR_Y]),
      New(BillingAccount, [name |-> STR_Y]),
      New(Profile, [id |-> STR_X, name |-> STR_Y]) }

InitConfig ==
    /\ legacy = InitialLegacy
    /\ registry = InitialRegistry
    /\ docs = {}
    /\ staged = <<>>
    /\ inst = NoInst
    /\ ops = 0
    /\ tasks = <<>>
    /\ last = NoOp
    /\ pin = <<>>
    /\ pout = "none"
    /\ admin = NoAdmin

CfgBudget == ops < MaxCfgOps

\* the record of a registry call
RegistryOp(op, name) ==
    [NoOp EXCEPT !.op = op, !.id = name,
                 !.before = [docs |-> docs, staged |-> staged, inst |-> inst,
                             admin |-> admin, registry |-> registry]]

\* configuration.add(name, project=..., prefix=..., client=..., async_client=...):
\* the only shared state it touches is self.config[name] = item, one step
CfgAdd ==
    /\ CfgBudget /\ Step
    /\ \E a \in Registrations :
         /\ registry' = ConfigurationAdd(registry, a.name, a.item.project, a.item.prefix,
                                         a.item.client, a.item.async_client)
         /\ last' = [RegistryOp("add", a.name) EXCEPT !.item = a.item]
    /\ UNCHANGED <<legacy, docs, staged, inst, pin, pout, admin, tasks>>

\* configure(client, prefix)
CfgConfigure ==
    /\ CfgBudget /\ Step
    /\ \E kind \in {"sync", "async"} :
         /\ legacy' = ConfigureLegacy(kind, "c1", STR_T)
         /\ registry' = ConfigureRegistry(registry, kind, "c1", STR_T)
         /\ last' = [RegistryOp("configure", STR_DEFAULT) EXCEPT
                       !.mode = kind,
                       !.item = IF kind = "async"
                                THEN ConfigItem(STR_T, NoProject, NoClient, "c1")
                                ELSE ConfigItem(STR_T, NoProject, "c1", NoClient)]
    /\ UNCHANGED <<docs, staged, inst, pin, pout, admin, tasks>>

\* configuration.get_config(name)
CfgGetConfig ==
    /\ CfgBudget /\ Step
    /\ \E name \in ConfigNames :
         LET r == GetConfig(name)
         IN  last' = [RegistryOp("get_config", name) EXCEPT
                        !.outcome = r.outcome, !.item = r.item]
    /\ UNCHANGED <<legacy, registry, docs, staged, inst, pin, pout, admin, tasks>>

\* configuration.get_client(name)
CfgGetClient ==
    /\ CfgBudget /\ Step
    /\ \E name \in ConfigNames :
         LET r == GetClient(name)
         IN  /\ registry' = r.registry
             /\ last' = [RegistryOp("get_client", name) EXCEPT
                           !.outcome = r.outcome, !.handle = r.client,
                           !.constructed = r.constructed]
    /\ UNCHANGED <<legacy, docs, staged, inst, pin, pout, admin, tasks>>

\* configuration.get_async_client(name)
CfgGetAsyncClient ==
    /\ CfgBudget /\ Step
    /\ \E name \in ConfigNames :
         LET r == GetAsyncClient(name)
         IN  /\ registry' = r.registry
             /\ last' = [RegistryOp("get_async_client", name) EXCEPT
                           !.outcome = r.outcome, !.handle = r.client,
                           !.constructed = r.constructed]
    /\ UNCHANGED <<legacy, docs, staged, inst, pin, pout, admin, tasks>>

CfgConstruct ==
    /\ CfgBudget /\ Step
    /\ \E i \in CfgCandidates : inst' = i
    /\ last' = [NoOp EXCEPT !.op = "construct"]
    /\ UNCHANGED <<legacy, registry, docs, staged, pin, pout, admin, tasks>>

CfgSave == CfgBudget /\ DoSave

CfgDelete == CfgBudget /\ DoDelete

CfgReload == CfgBudget /\ DoReload

CfgGetByDocId == CfgBudget /\ DoGetByDocId

CfgFind == CfgBudget /\ DoFindIn({<<>>})

CfgFindOne == CfgBudget /\ DoFindOneIn({<<>>})

CfgTruncateCollection == CfgBudget /\ DoTruncateCollection

NextConfig ==
    \/ CfgAdd
    \/ CfgConfigure
    \/ CfgGetConfig
    \/ CfgGetClient
    \/ CfgGetAsyncClient
    \/ CfgConstruct
    \/ CfgSave
    \/ CfgDelete
    \/ CfgReload
    \/ CfgGetByDocId
    \/ CfgFind
    \/ CfgFindOne
    \/ CfgTruncateCollection

SpecConfig == InitConfig /\ [][NextConfig]_vars

----------------------------------------------------------------------------
(* The two implementations called with the same arguments in the same     *)
(* state                                                                   *)

MaxTwinOps == 3

\* configure(client, prefix="t-") and configuration.add(prefix="t-",
\* client=client, async_client=async_client): both implementations reach the
\* same database under the same prefix; a Profile is stored
InitTwin ==
    /\ legacy = ConfigureLegacy("sync", "p1", STR_T)
    /\ registry = ConfigurationAdd(InitialRegistry, STR_DEFAULT, NoProject, STR_T,
                                   "p1", "p1")
    /\ docs = BackendSet({}, "p1", STR_T \o Profile.collection, STR_X,
                         ToStorage(New(Profile, [id |-> STR_X, name |-> STR_Y]),
                                   FALSE, FALSE))
    /\ staged = <<>>
    /\ inst = NoInst
    /\ ops = 0
    /\ tasks = <<>>
    /\ last = NoOp
    /\ pin = <<>>
    /\ pout = "none"
    /\ admin = NoAdmin

TwinBudget == ops < MaxTwinOps

TwinConstruct ==
    /\ TwinBudget /\ Step
    /\ \E i \in TxCandidates : inst' = i
    /\ last' = [NoOp EXCEPT !.op = "construct"]
    /\ UNCHANGED <<legacy, registry, docs, staged, pin, pout, admin, tasks>>

\* the operation op run by one implementation, the other implementation's
\* result for the same call in the same state recorded beside it
TwinApply(op, blocking, nonblocking) ==
    /\ TwinBudget
    /\ inst # NoInst
    /\ \E mode \in {"sync", "async"} :
         LET r == IF mode = "sync" THEN blocking ELSE nonblocking
             o == IF mode = "sync" THEN nonblocking ELSE blocking
         IN  /\ Apply(r, [Op(op, mode, inst.cls, r) EXCEPT !.twin = Observed(o)])
             /\ inst' = r.inst

TwinSave ==
    \E o \in SaveOptions, auto \in AutoIds :
        /\ Fresh(auto)
        /\ TwinApply("save", Save(inst, o[1], o[2], o[3], auto),
                     AsyncSave(inst, o[1], o[2], o[3], auto))

TwinDelete ==
    \E tx \in BOOLEAN, auto \in AutoIds :
        /\ Fresh(auto)
        /\ TwinApply("delete", Delete(inst, tx, auto), AsyncDelete(inst, tx, auto))

TwinReload == TwinApply("reload", Reload(inst), AsyncReload(inst))

TwinGetByDocId ==
    \E doc_id \in LookupIds :
        TwinApply("get_by_doc_id", [GetByDocId(inst.cls, doc_id) EXCEPT !.inst = inst],
                  [AsyncGetByDocId(inst.cls, doc_id) EXCEPT !.inst = inst])

TwinFind ==
    \E filter_ \in Filters :
        TwinApply("find", [Find(inst.cls, filter_) EXCEPT !.inst = inst],
                  [AsyncFind(inst.cls, filter_) EXCEPT !.inst = inst])

TwinTruncateCollection ==
    TwinApply("truncate_collection",
              [TruncateCollection(inst.cls) EXCEPT !.inst = inst],
              [AsyncTruncateCollection(inst.cls) EXCEPT !.inst = inst])

NextTwin ==
    \/ TwinConstruct
    \/ TwinSave
    \/ TwinDelete
    \/ TwinReload
    \/ TwinGetByDocId
    \/ TwinFind
    \/ TwinTruncateCollection

SpecTwin == InitTwin /\ [][NextTwin]_vars

----------------------------------------------------------------------------
(* The non-blocking save and reload, step by step: up to the awaited       *)
(* backend request, the request at the backend, and from its return on     *)

MaxAwaitOps == 3

\* a call suspended at its awaited request: the instance and the store as they
\* were when the call began, the document the request is for, the payload of
\* a set, the document a get returned
Task(op, at, ref, id, data, i) ==
    [op |-> op, at |-> at, db |-> ref.db, col |-> ref.col, id |-> id, data |-> data,
     inst |-> i, docs |-> docs, document |-> [exists |-> FALSE, data |-> <<>>]]

NoTask == Task("none", "none", ColRefError("none"), <<>>, <<>>, NoInst)

\* how far a call got: outcome is "suspended" at the awaited request
Reached(outcome, i, task) == [outcome |-> outcome, inst |-> i, task |-> task]

\* a save that sets the identifier before it awaits the write
AsyncSaveIdBeforeSet(i, exclude_unset, exclude_none, auto) ==
    LET ref == GetAsyncCollectionRef(i.cls, i.cls.db_config)
        doc_id == DocumentIdOf(i)
        id == IF doc_id = None THEN auto ELSE doc_id
    IN  IF ref.outcome # "ok" THEN Reached(ref.outcome, i, NoTask)
        ELSE IF doc_id # None /\ ValidateDocumentId(doc_id) # "ok"
        THEN Reached("InvalidDocumentID", i, NoTask)
        ELSE Reached("suspended", SetAttr(i, i.cls.document_id, id),
                     Task("save", "set", ref, id,
                          ToStorage(i, exclude_unset, exclude_none), i))

\* AsyncBareModel.save without a transaction, up to await doc_ref.set(data)
AsyncSaveUntilSet(i, exclude_unset, exclude_none, auto) ==
    LET ref == GetAsyncCollectionRef(i.cls, i.cls.db_config)
        doc_id == DocumentIdOf(i)
        id == IF doc_id = None THEN auto ELSE doc_id
    IN  IF ref.outcome # "ok" THEN Reached(ref.outcome, i, NoTask)
        ELSE IF doc_id # None /\ ValidateDocumentId(doc_id) # "ok"
        THEN Reached("InvalidDocumentID", i, NoTask)
        ELSE Reached("suspended", i,
                     Task("save", "set", ref, id,
                          ToStorage(i, exclude_unset, exclude_none), i))

\* AsyncBareModel.save after the write returned: setattr(self, __document_id__, doc_ref.id)
AsyncSaveAfterSet(i, task) == SetAttr(i, i.cls.document_id, task.id)

\* AsyncBareModel.reload up to the awaited get of get_by_doc_id
AsyncReloadUntilGet(i) ==
    LET doc_id == DocumentIdOf(i)
        ref == AsyncGetColRef(i.cls, FALSE, None)
    IN  IF doc_id = None THEN Reached("ModelNotFoundError", i, NoTask)
        ELSE IF ValidateDocumentId(doc_id) # "ok"
        THEN Reached("ModelNotFoundError", i, NoTask)
        ELSE IF ref.outcome # "ok" THEN Reached(ref.outcome, i, NoTask)
        ELSE Reached("suspended", i, Task("reload", "get", ref, doc_id, <<>>, i))

\* AsyncBareModel.reload after the get returned: get_by_doc_id builds the model
\* of the document, then self.__dict__.update(updated_model.__dict__)
AsyncReloadAfterGet(i, task) ==
    LET model == FromStorage(i.cls, task.id, task.document.data)
    IN  IF ~task.document.exists THEN Reached("ModelNotFoundError", i, NoTask)
        ELSE IF model.outcome # "ok" THEN Reached(model.outcome, i, NoTask)
        ELSE Reached("ok", [i EXCEPT !.vals = model.inst.vals], NoTask)

STR_BOGUS == <<98, 111, 103, 117, 115>>                          \* "bogus"

\* a configured non-blocking application; the store holds a Profile and a
\* document that is no Profile
InitAwait ==
    /\ legacy = ConfigureLegacy("async", "p1", STR_T)
    /\ registry = ConfigureRegistry(InitialRegistry, "async", "p1", STR_T)
    /\ docs = BackendSet(
                BackendSet({}, "p1", STR_T \o Profile.collection, STR_X,
                           ToStorage(New(Profile, [id |-> STR_X, name |-> STR_Y]),
                                     FALSE, FALSE)),
                "p1", STR_T \o Profile.collection, STR_Y, [bogus |-> STR_BOGUS])
    /\ staged = <<>>
    /\ inst = NoInst
    /\ ops = 0
    /\ tasks = <<>>
    /\ last = NoOp
    /\ pin = <<>>
    /\ pout = "none"
    /\ admin = NoAdmin

\* the instances the application constructs
AwaitCandidates ==
    { New(Profile, <<>>),
      New(Profile, [id |-> STR_X, name |-> None]),
      New(Profile, [id |-> STR_Y]),
      New(Profile, [id |-> STR_A1, name |-> STR_Y]),
      New(Profile, [id |-> STR_DOTS, name |-> STR_Y]),
      New(MissingCollectionUser, [id |-> STR_X, name |-> STR_Y]) }

AwaitBudget == ops < MaxAwaitOps

\* the record of a call that ended with the outcome; before is the state in
\* which the call began
Ended(op, cls, outcome, task) ==
    [NoOp EXCEPT !.op = op, !.mode = "async", !.cls = cls, !.outcome = outcome,
                 !.id = task.id, !.data = task.data,
                 !.before = [docs |-> task.docs, staged |-> staged, inst |-> task.inst,
                             admin |-> admin, registry |-> registry]]

AwaitConstruct ==
    /\ tasks = <<>>
    /\ AwaitBudget /\ Step
    /\ \E i \in AwaitCandidates : inst' = i
    /\ last' = [NoOp EXCEPT !.op = "construct"]
    /\ UNCHANGED <<legacy, registry, docs, staged, pin, pout, admin, tasks>>

\* a call runs up to its awaited request, or ends with an exception before it
Begin(op, r) ==
    /\ AwaitBudget /\ Step
    /\ inst' = r.inst
    /\ IF r.outcome = "suspended"
       THEN /\ tasks' = <<r.task>>
            /\ last' = [NoOp EXCEPT !.op = "await"]
       ELSE /\ tasks' = <<>>
            /\ last' = Ended(op, inst.cls, r.outcome, [r.task EXCEPT !.inst = inst])
    /\ UNCHANGED <<legacy, registry, docs, staged, pin, pout, admin>>

\* await inst.save(exclude_unset=..., exclude_none=...) is called
AwaitSave ==
    /\ tasks = <<>> /\ inst # NoInst
    /\ \E o \in SaveOptions, auto \in AutoIds :
         /\ ~o[3]
         /\ Fresh(auto)
         /\ Begin("save", AsyncSaveUntilSet(inst, o[1], o[2], auto))

\* await inst.reload() is called
AwaitReload ==
    /\ tasks = <<>> /\ inst # NoInst
    /\ Begin("reload", AsyncReloadUntilGet(inst))

\* the backend applies the write and returns
BackendSets ==
    /\ tasks # <<>> /\ tasks[1].at = "set"
    /\ docs' = BackendSet(docs, tasks[1].db, tasks[1].col, tasks[1].id, tasks[1].data)
    /\ tasks' = <<[tasks[1] EXCEPT !.at = "returned"]>>
    /\ UNCHANGED <<legacy, registry, staged, inst, ops, last, pin, pout, admin>>

\* the backend reads the document and returns it
BackendGets ==
    /\ tasks # <<>> /\ tasks[1].at = "get"
    /\ tasks' = <<[tasks[1] EXCEPT
                     !.at = "returned",
                     !.document = BackendGet(docs, tasks[1].db, tasks[1].col,
                                             tasks[1].id)]>>
    /\ UNCHANGED <<legacy, registry, docs, staged, inst, ops, last, pin, pout, admin>>

\* the request fails: its exception leaves the call at the await
BackendFails ==
    /\ tasks # <<>> /\ tasks[1].at \in {"set", "get"}
    /\ tasks' = <<>>
    /\ last' = Ended(tasks[1].op, inst.cls, "GoogleAPICallError", tasks[1])
    /\ UNCHANGED <<legacy, registry, docs, staged, inst, ops, pin, pout, admin>>

\* the caller cancels the suspended call: CancelledError leaves it at the
\* await, whether the backend has acted on the request or not
Cancel ==
    /\ tasks # <<>>
    /\ tasks' = <<>>
    /\ last' = Ended(tasks[1].op, inst.cls, "CancelledError", tasks[1])
    /\ UNCHANGED <<legacy, registry, docs, staged, inst, ops, pin, pout, admin>>

\* save goes on after the write returned
ResumeSave ==
    /\ tasks # <<>> /\ tasks[1].op = "save" /\ tasks[1].at = "returned"
    /\ inst' = AsyncSaveAfterSet(inst, tasks[1])
    /\ tasks' = <<>>
    /\ last' = Ended("save", inst.cls, "ok", tasks[1])
    /\ UNCHANGED <<legacy, registry, docs, staged, ops, pin, pout, admin>>

\* reload goes on after the get returned
ResumeReload ==
    /\ tasks # <<>> /\ tasks[1].op = "reload" /\ tasks[1].at = "returned"
    /\ LET r == AsyncReloadAfterGet(inst, tasks[1])
       IN  /\ inst' = r.inst
           /\ last' = Ended("reload", inst.cls, r.outcome, tasks[1])
    /\ tasks' = <<>>
    /\ UNCHANGED <<legacy, registry, docs, staged, ops, pin, pout, admin>>

NextAwait ==
    \/ AwaitConstruct
    \/ AwaitSave
    \/ AwaitReload
    \/ BackendSets
    \/ BackendGets
    \/ BackendFails
    \/ Cancel
    \/ ResumeSave
    \/ ResumeReload

SpecAwait == InitAwait /\ [][NextAwait]_vars

----------------------------------------------------------------------------
(* Sub-resource types bound to parents                                     *)

MaxBindOps == 4

RBRACE == 125

STR_USERS == <<117, 115, 101, 114, 115>>                         \* "users"
STR_STATS == <<47, 115, 116, 97, 116, 115>>                      \* "/stats"
STR_NONE == <<78, 111, 110, 101>>                                \* "None"
STR_1 == <<49>>                                                  \* "1"
STR_2 == <<50>>                                                  \* "2"

\* conftest: class User(Model): __collection__ = "users", name: str
User ==
    Class("User", "model", STR_USERS, "id",
          [id |-> Field("id", TRUE, FALSE, None),
           name |-> Field("name", FALSE, TRUE, None)], TRUE)

\* the characters of the keys a template can name
KeyText == [id |-> <<105, 100>>, name |-> <<110, 97, 109, 101>>]

\* format(value, ""): what str.format puts in place of a placeholder whose
\* value is a str or None
PyStr(v) == IF v = None THEN STR_NONE ELSE v

\* the index of the first "}" of s
FirstBrace(s) == CHOOSE j \in 1..Len(s) : s[j] = RBRACE /\ \A k \in 1..(j - 1) : s[k] # RBRACE

RECURSIVE Placeholders(_)
\* the field names between "{" and "}" in a template
Placeholders(tpl) ==
    IF tpl = <<>> THEN {}
    ELSE IF Head(tpl) = LBRACE /\ Contains(tpl, RBRACE)
    THEN {SubSeq(tpl, 2, FirstBrace(tpl) - 1)}
           \cup Placeholders(SubSeq(tpl, FirstBrace(tpl) + 1, Len(tpl)))
    ELSE Placeholders(Tail(tpl))

RECURSIVE Format(_, _)
\* tpl.format(**props), every placeholder of tpl being a key of props
Format(tpl, props) ==
    IF tpl = <<>> THEN <<>>
    ELSE IF Head(tpl) = LBRACE /\ Contains(tpl, RBRACE)
    THEN LET name == SubSeq(tpl, 2, FirstBrace(tpl) - 1)
             key == CHOOSE k \in DOMAIN props : KeyText[k] = name
         IN  PyStr(props[key]) \o Format(SubSeq(tpl, FirstBrace(tpl) + 1, Len(tpl)), props)
    ELSE <<Head(tpl)>> \o Format(Tail(tpl), props)

\* what model_for leaves: the exception raised ("ok" for none), the class it
\* was called on and the class it returns
Bound(outcome, model_class, ic) ==
    [outcome |-> outcome, model_class |-> model_class, ic |-> ic]

\* a model_for that sets __collection__ on the class it is called on
ModelForInPlace(model_class, collection_tpl, parent) ==
    LET parent_props == ModelDump(parent, FALSE, FALSE)
        path == Format(collection_tpl, parent_props)
    IN  IF \E name \in Placeholders(collection_tpl) :
               \A k \in DOMAIN parent_props : KeyText[k] # name
        THEN Bound("KeyError", model_class, NoClass)
        ELSE Bound("ok", [model_class EXCEPT !.collection = path],
                   [model_class EXCEPT !.collection = path])

\* BareSubModel.model_for(parent) / AsyncBareSubModel.model_for(parent):
\* ic = type(name, (model_class,), {}),
\* ic.__collection__ = cls.__collection_tpl__.format(**parent_props)
ModelFor(model_class, collection_tpl, parent) ==
    LET parent_props == ModelDump(parent, FALSE, FALSE)
    IN  IF \E name \in Placeholders(collection_tpl) :
               \A k \in DOMAIN parent_props : KeyText[k] # name
        THEN Bound("KeyError", model_class, NoClass)
        ELSE Bound("ok", model_class,
                   [model_class EXCEPT
                      !.collection = Format(collection_tpl, parent_props)])

\* the parents of test_get_user_purchases, saved or not
Parents ==
    { New(User, [id |-> STR_1, name |-> STR_Y]),
      New(User, [id |-> STR_2, name |-> STR_Y]),
      New(User, [name |-> STR_Y]) }

\* a configured application, blocking or non-blocking
InitBind ==
    /\ \E kind \in {"sync", "async"} :
         /\ legacy = ConfigureLegacy(kind, "p1", STR_T)
         /\ registry = ConfigureRegistry(InitialRegistry, kind, "p1", STR_T)
    /\ docs = {}
    /\ staged = <<>>
    /\ inst = NoInst
    /\ ops = 0
    /\ tasks = <<>>
    /\ last = NoOp
    /\ pin = <<>>
    /\ pout = "none"
    /\ admin = NoAdmin

BindBudget == ops < MaxBindOps

\* us = UserStats.model_for(parent); us(id="x", purchases=2): last.models holds
\* UserStats as the call left it
BindAndConstruct ==
    /\ BindBudget /\ Step
    /\ \E parent \in Parents :
         LET r == ModelFor(UserStats, STR_TPL, parent)
         IN  /\ inst' = New(r.ic, [id |-> STR_X, purchases |-> IntVal(2)])
             /\ last' = [NoOp EXCEPT !.op = "model_for", !.cls = r.ic,
                                     !.outcome = r.outcome,
                                     !.id = DocumentIdOf(parent),
                                     !.models = <<r.model_class>>,
                                     !.before = [docs |-> docs, staged |-> staged,
                                                 inst |-> inst, admin |-> admin,
                                                 registry |-> registry]]
    /\ UNCHANGED <<legacy, registry, docs, staged, pin, pout, admin, tasks>>

\* UserStats(id="x"): an instance of the type as declared
ConstructUnbound ==
    /\ BindBudget /\ Step
    /\ inst' = New(UserStats, [id |-> STR_X])
    /\ last' = [NoOp EXCEPT !.op = "construct"]
    /\ UNCHANGED <<legacy, registry, docs, staged, pin, pout, admin, tasks>>

BindSave == BindBudget /\ DoSave

BindGetByDocId == BindBudget /\ DoGetByDocId

BindFind == BindBudget /\ DoFindIn({<<>>})

BindDelete == BindBudget /\ DoDelete

NextBind ==
    \/ BindAndConstruct
    \/ ConstructUnbound
    \/ BindSave
    \/ BindGetByDocId
    \/ BindFind
    \/ BindDelete

SpecBind == InitBind /\ [][NextBind]_vars

----------------------------------------------------------------------------
(* truncate_collection, pass by pass                                       *)

MaxTruncateDocs == 4
MaxBatchSize == 3

\* the identifiers of the stored profiles: "a", "b", ...
TruncateIds == {<<CH_A + k - 1>> : k \in 1..MaxTruncateDocs}

\* the profiles with the identifiers ids, stored under the prefix "t-"
StoredProfiles(ids) ==
    {Doc("p1", STR_T \o Profile.collection, id,
         ToStorage(New(Profile, [id |-> id, name |-> STR_Y]), FALSE, FALSE)) : id \in ids}

\* a product stored beside them
StoredProduct ==
    Doc("p1", STR_T \o Product.collection, STR_X,
        ToStorage(New(Product, [id |-> STR_X, product_id |-> STR_Y, stock |-> IntVal(1)]),
                  FALSE, FALSE))

\* a configured application; the store holds any number of profiles and a
\* product
InitTruncate ==
    /\ \E kind \in {"sync", "async"} :
         /\ legacy = ConfigureLegacy(kind, "p1", STR_T)
         /\ registry = ConfigureRegistry(InitialRegistry, kind, "p1", STR_T)
    /\ \E ids \in SUBSET TruncateIds : docs = StoredProfiles(ids) \cup {StoredProduct}
    /\ staged = <<>>
    /\ inst = NoInst
    /\ ops = 0
    /\ tasks = <<>>
    /\ last = NoOp
    /\ pin = <<>>
    /\ pout = "none"
    /\ admin = NoAdmin

\* a loop that returns after any pass that deleted no more than batch_size
LastPassAlways(deleted, batch_size) == deleted <= batch_size

\* helpers.truncate_collection: if deleted < batch_size: return count
LastPass(deleted, batch_size) == deleted < batch_size

\* col_ref.limit(batch_size).stream(): the sets of documents one pass may be
\* given, any batch_size documents of the collection or all it has
Batch(store, db, col, batch_size) ==
    {b \in SUBSET BackendStream(store, db, col) :
        Cardinality(b) = IF Cardinality(BackendStream(store, db, col)) < batch_size
                         THEN Cardinality(BackendStream(store, db, col))
                         ELSE batch_size}

\* Profile.truncate_collection(batch_size) is called: cls._get_col_ref(), count = 0
TruncateBegin ==
    /\ tasks = <<>> /\ last.op = "none"
    /\ Step
    /\ \E mode \in {"sync", "async"}, batch_size \in 1..MaxBatchSize :
         /\ ModeOk(mode)
         /\ LET ref == IF mode = "sync" THEN SyncGetColRef(Profile)
                       ELSE AsyncGetColRef(Profile, FALSE, None)
            IN  /\ ref.outcome = "ok"
                /\ registry' = ref.registry
                /\ tasks' = <<[op |-> "truncate_collection", mode |-> mode,
                               db |-> ref.db, col |-> ref.col,
                               batch_size |-> batch_size, count |-> 0, docs |-> docs]>>
    /\ last' = [NoOp EXCEPT !.op = "await"]
    /\ UNCHANGED <<legacy, docs, staged, inst, pin, pout, admin>>

\* one pass of the loop: the documents streamed are deleted and counted; the
\* call returns the count after a pass that deleted fewer than batch_size
TruncatePass ==
    /\ tasks # <<>> /\ tasks[1].op = "truncate_collection"
    /\ \E batch \in Batch(docs, tasks[1].db, tasks[1].col, tasks[1].batch_size) :
         LET count == tasks[1].count + Cardinality(batch)
         IN  /\ docs' = docs \ batch
             /\ IF LastPass(Cardinality(batch), tasks[1].batch_size)
                THEN /\ tasks' = <<>>
                     /\ last' = [NoOp EXCEPT
                                   !.op = "truncate_collection", !.mode = tasks[1].mode,
                                   !.cls = Profile, !.outcome = "ok",
                                   !.limit = tasks[1].batch_size,
                                   !.returned = count,
                                   !.before = [docs |-> tasks[1].docs, staged |-> staged,
                                               inst |-> inst, admin |-> admin,
                                               registry |-> registry]]
                ELSE /\ tasks' = <<[tasks[1] EXCEPT !.count = count]>>
                     /\ UNCHANGED last
    /\ UNCHANGED <<legacy, registry, staged, inst, ops, pin, pout, admin>>

NextTruncate ==
    \/ TruncateBegin
    \/ TruncatePass

SpecTruncate == InitTruncate /\ [][NextTruncate]_vars

\* the thread or the event loop runs a call that can go on
SpecTruncateFair == SpecTruncate /\ WF_vars(TruncatePass)

----------------------------------------------------------------------------
(* What the claims speak of *)

\* the client the mode's classes read was handed to configure()
ConfiguredFor(mode) == legacy.kind = mode

\* the record type names a collection: a model with __collection__ set, or a
\* sub-resource type that model_for bound to a parent
Resolvable(cls) ==
    /\ cls.collection # None
    /\ cls.collection # <<>>
    /\ \A n \in 1..Len(cls.collection) : cls.collection[n] # 123

\* the collection path {prefix}{collection} of a record type
PathOf(cls) == legacy.prefix \o cls.collection

\* get_by_doc_id / get_by_id in the given mode, on the current store
GetIn(mode, cls, doc_id) ==
    IF mode = "sync" THEN GetByDocId(cls, doc_id) ELSE AsyncGetByDocId(cls, doc_id)

\* save called with its default options and no transaction
PlainSave ==
    /\ last.op = "save"
    /\ ~last.exclude_unset /\ ~last.exclude_none /\ ~last.tx

IdBefore == last.before.inst.vals[last.cls.document_id]
IdAfter == last.inst.vals[last.cls.document_id]

\* C1: save persists the record at {collection}/{identifier}: an instance
\* without identifier gets a fresh non-empty one written back, an instance with
\* an identifier writes exactly that document and creates no other, and
\* get_by_doc_id with the instance's identifier afterwards returns a record
\* whose field values equal the saved instance's.
C1_SaveThenGetRoundTrip ==
    (PlainSave /\ ConfiguredFor(last.mode) /\ Resolvable(last.cls)
       /\ (IdBefore = None \/ FiveRules(IdBefore)))
    => /\ last.outcome = "ok"
       /\ IdAfter # None /\ IdAfter # <<>>
       /\ IdBefore # None => IdAfter = IdBefore
       /\ IdBefore = None =>
            At(last.before.docs, "p1", PathOf(last.cls), IdAfter) = {}
       /\ docs \ At(docs, "p1", PathOf(last.cls), IdAfter)
            = last.before.docs \ At(last.before.docs, "p1", PathOf(last.cls), IdAfter)
       /\ Cardinality(At(docs, "p1", PathOf(last.cls), IdAfter)) = 1
       /\ GetIn(last.mode, last.cls, IdAfter).outcome = "ok"
       /\ GetIn(last.mode, last.cls, IdAfter).found[1].vals = last.inst.vals

\* C1 on the record types that are not sub-resources
C1_OnModels == last.cls.kind = "model" => C1_SaveThenGetRoundTrip

\* C2: after delete() returns on a saved instance, get_by_doc_id with its
\* identifier raises ModelNotFoundError: delete removes the document at the
\* path {prefix}{collection}/{identifier} that save wrote and get reads.
C2_DeleteThenGetNotFound ==
    (last.op = "delete" /\ ~last.tx /\ ConfiguredFor(last.mode) /\ Resolvable(last.cls)
       /\ IdBefore # None /\ FiveRules(IdBefore)
       /\ At(last.before.docs, "p1", PathOf(last.cls), IdBefore) # {})
    => /\ last.outcome = "ok"
       /\ last.calls = <<Call("delete", "p1", PathOf(last.cls), IdBefore)>>
       /\ At(docs, "p1", PathOf(last.cls), IdBefore) = {}
       /\ GetIn(last.mode, last.cls, IdBefore).outcome = "ModelNotFoundError"

\* C2 in the blocking mode
C2_Blocking == last.mode = "sync" => C2_DeleteThenGetNotFound

\* the operations that reach for the record type's collection
StorageOp ==
    last.op \in {"save", "delete", "reload", "find", "find_one", "get_by_doc_id",
                 "truncate_collection"}

\* the operation was given a well-formed identifier where it takes one
WellFormedId ==
    /\ last.op = "get_by_doc_id" => FiveRules(last.id)
    /\ last.op = "reload" => IdBefore # None /\ FiveRules(IdBefore)

\* nothing was sent to the backend, written or staged
NothingDone ==
    /\ last.calls = <<>>
    /\ docs = last.before.docs
    /\ staged = last.before.staged

\* C4: save on an instance whose identifier violates an identifier rule raises
\* InvalidDocumentID before any backend call: nothing is written or staged, the
\* store is unchanged and the instance's identifier field is unchanged.
C4_InvalidIdSaveWritesNothing ==
    (last.op = "save" /\ IdBefore # None /\ ~FiveRules(IdBefore))
    => /\ last.outcome # "ok"
       /\ NothingDone
       /\ last.inst = last.before.inst
       /\ inst = last.before.inst
       /\ (ConfiguredFor(last.mode) /\ Resolvable(last.cls))
            => last.outcome = "InvalidDocumentID"

C4_Witness ==
    /\ last.op = "save" /\ last.outcome = "InvalidDocumentID"
    /\ last.mode = "async" /\ last.tx
    /\ IdBefore = <<>>
    /\ docs # {}

\* C5: get_by_doc_id with an identifier that violates an identifier rule raises
\* ModelNotFoundError, never InvalidDocumentID, and reads nothing; with a
\* well-formed identifier it raises ModelNotFoundError exactly when no document
\* exists at that identifier.
C5_GetNotFound ==
    last.op = "get_by_doc_id"
    => /\ ~FiveRules(last.id) => last.outcome = "ModelNotFoundError" /\ last.calls = <<>>
       /\ (FiveRules(last.id) /\ ConfiguredFor(last.mode) /\ Resolvable(last.cls))
            => (last.outcome = "ModelNotFoundError"
                  <=> At(docs, "p1", PathOf(last.cls), last.id) = {})

\* C5 on the record types that are not sub-resources
C5_OnModels == last.cls.kind = "model" => C5_GetNotFound

\* C6: every storage operation on a record type whose __collection__ is not
\* set raises CollectionNotDefined before any backend call; save writes nothing.
C6_NoCollectionRejected ==
    (StorageOp /\ WellFormedId /\ ConfiguredFor(last.mode)
       /\ last.cls.kind = "model" /\ Falsy(last.cls.collection))
    => last.outcome = "CollectionNotDefined" /\ NothingDone

\* C6 in the blocking mode
C6_Blocking == last.mode = "sync" => C6_NoCollectionRejected

\* C7: a sub-resource type that model_for did not bind (its collection unset
\* or still holding "{") rejects every storage operation with
\* CollectionNotDefined, with no other error and no backend call.
C7_UnboundRejected ==
    (StorageOp /\ WellFormedId /\ ConfiguredFor(last.mode)
       /\ last.cls.kind = "submodel" /\ ~Resolvable(last.cls))
    => last.outcome = "CollectionNotDefined" /\ NothingDone

\* C7 in the blocking mode
C7_Blocking == last.mode = "sync" => C7_UnboundRejected

\* the stored body holds, under the identifier field's name, another value
\* than the document's path identifier
Conflict(cls, d) == cls.document_id \in DOMAIN d.body /\ d.body[cls.document_id] # d.id

\* every returned record carries the identifier of the document it was read from
CarriesPathId ==
    /\ Len(last.found) = Cardinality(last.rows)
    /\ \A d \in last.rows :
         \E n \in 1..Len(last.found) : last.found[n].vals[last.cls.document_id] = d.id
    /\ last.op = "get_by_doc_id" => last.found[1].vals[last.cls.document_id] = last.id

\* C8: every record find, find_one or get_by_doc_id returns carries the path
\* identifier, also when the body holds another value under the identifier
\* field's name: the body value is overwritten and the conflict is reported
\* as a warning, nothing more.
C8_PathIdWinsWithWarning ==
    (last.op \in {"find", "find_one", "get_by_doc_id"} /\ last.outcome = "ok")
    => /\ CarriesPathId
       /\ \A d \in last.rows : Conflict(last.cls, d) => d.id \in last.warned

\* C8 without the warning
C8_PathIdWins ==
    (last.op \in {"find", "find_one", "get_by_doc_id"} /\ last.outcome = "ok")
    => /\ CarriesPathId
       /\ last.op # "get_by_doc_id" =>
            \A d \in last.rows : Conflict(last.cls, d) => d.id \in last.warned

C8_Witness ==
    /\ last.op \in {"find", "get_by_doc_id"} /\ last.outcome = "ok"
    /\ \E d \in last.rows : Conflict(last.cls, d)

\* the fields of the mapped instance that the options of the mapping keep
Kept ==
    {f \in DOMAIN last.before.inst.vals :
        /\ last.exclude_unset => f \in last.before.inst.fset
        /\ last.exclude_none => last.before.inst.vals[f] # None}

\* the payload holds every kept field but the identifier field, and nothing else
PayloadWithoutId ==
    /\ last.cls.document_id \notin DOMAIN last.data
    /\ \A f \in Kept \ {last.cls.document_id} :
         /\ last.cls.fields[f].alias \in DOMAIN last.data
         /\ last.data[last.cls.fields[f].alias] = last.before.inst.vals[f]
    /\ Cardinality(DOMAIN last.data) = Cardinality(Kept \ {last.cls.document_id})

\* the payload read back carries the identifier it was read under
ReadBackUnderId ==
    /\ last.outcome = "ok"
    /\ last.found[1].vals[last.cls.document_id] = last.id

\* mapping the record read back yields the payload again
SamePayloadAgain ==
    ToStorage(last.found[1], last.exclude_unset, last.exclude_none) = last.data

\* exclude_none alone dropped a None held by a field whose default is not None
DroppedNoneOverDefault ==
    /\ last.exclude_none /\ ~last.exclude_unset
    /\ \E f \in DOMAIN last.before.inst.vals \ {last.cls.document_id} :
         last.before.inst.vals[f] = None /\ last.cls.fields[f].default # None

\* C9 as claimed: the payload save writes holds every mapped field but the
\* identifier field, and reading it back under id and mapping it again yields
\* the same payload, the record's identifier being id.
C9_RoundTripAlways ==
    last.op = "to_storage" => PayloadWithoutId /\ ReadBackUnderId /\ SamePayloadAgain

\* C9 as amended: the payload holds every field the options keep but the
\* identifier field; read back under id the record's identifier is id; mapping
\* it again yields the same payload unless exclude_none alone dropped a None
\* held by a field whose default is not None, and then it does not.
C9_RoundTripUnlessDefaultOverNone ==
    last.op = "to_storage"
    => /\ PayloadWithoutId
       /\ ReadBackUnderId
       /\ SamePayloadAgain <=> ~DroppedNoneOverDefault

C9_Witness ==
    /\ last.op = "to_storage" /\ last.outcome = "ok"
    /\ last.cls.name = "User"
    /\ last.before.inst.vals["id"] = STR_Y /\ last.id = STR_X
    /\ DOMAIN last.data = {"firstName", "city"}
    /\ SamePayloadAgain

\* one (operator, operand) pair read as a predicate on an int value
Holds(v, op, operand) ==
    CASE op = "<" -> v < operand
      [] op = "<=" -> v <= operand
      [] op = "==" -> v = operand
      [] op = "!=" -> v # operand
      [] op = ">" -> v > operand
      [] op = ">=" -> v >= operand

\* the document satisfies every entry of the filter: a literal is equality,
\* an operator map is one predicate per pair, all of them together
Satisfies(body, filter_) ==
    \A key \in DOMAIN filter_ :
        /\ key \in DOMAIN body
        /\ IF filter_[key].isdict
           THEN \A op \in DOMAIN filter_[key].ops :
                    Holds(body[key][2], op, filter_[key].ops[op][2])
           ELSE body[key] = filter_[key].value

\* the filter with every literal entry rewritten as {"==": value}
AsOperatorMaps(filter_) ==
    [key \in DOMAIN filter_ |->
        IF filter_[key].isdict THEN filter_[key]
        ELSE OperatorMap([x \in {"=="} |-> filter_[key].value])]

\* the query of the last find, asked again in its mode with another filter
FindAgain(filter_) ==
    IF last.mode = "sync" THEN Find(last.cls, filter_) ELSE AsyncFind(last.cls, filter_)

\* C10: find returns exactly the stored documents of the collection that
\* satisfy every filter entry: a literal is one equality predicate (the same
\* result as {"==": value}), an operator map one predicate per pair, all
\* combined conjunctively; an absent or empty filter returns every document.
C10_FindReturnsExactlyTheMatches ==
    (last.op = "find" /\ ~Unsupported(last.filter)
       /\ last.limit = NoNumber /\ last.offset = NoNumber)
    => /\ last.outcome = "ok"
       /\ last.rows = {d \in docs : d.db = "p1" /\ d.col = PathOf(last.cls)
                                      /\ Satisfies(d.body, last.filter)}
       /\ Len(last.found) = Cardinality(last.rows)
       /\ \A d \in last.rows :
            \E n \in 1..Len(last.found) :
               /\ last.found[n].vals["id"] = d.id
               /\ last.found[n].vals["stock"] = d.body["stock"]
               /\ last.found[n].vals["product_id"] = d.body["product_id"]
       /\ FindAgain(AsOperatorMaps(last.filter)).rows = last.rows
       /\ last.filter = <<>> =>
            last.rows = {d \in docs : d.db = "p1" /\ d.col = PathOf(last.cls)}

C10_Witness ==
    /\ last.op = "find" /\ last.outcome = "ok"
    /\ last.filter = [stock |-> OperatorMap([x \in {">=", "<"} |->
                                               IF x = ">=" THEN IntVal(2) ELSE IntVal(4)])]
    /\ {last.found[n].vals["stock"] : n \in 1..Len(last.found)} = {IntVal(2), IntVal(3)}
    /\ Len(last.found) = 2
    /\ FindAgain([stock |-> OperatorMap([x \in {">="} |-> IntVal(2)])]).rows = last.rows

\* the symbols of the last filter's operator maps that are none of the ten
\* supported operators
Offending ==
    {p[2] : p \in OperatorPairs(last.filter)}
      \ {"<", "<=", "==", "!=", ">", ">=", "array-contains", "array-contains-any",
         "in", "not-in"}

Matched == FindAgain(last.filter).rows

\* the last find's order_by decides between any two matched documents
TotalOrder ==
    /\ last.order_by.given
    /\ \A a, b \in Matched :
         /\ \A n \in 1..Len(last.order_by.by) : last.order_by.by[n][1] \in DOMAIN a.body
         /\ a # b => DocLess(a, b, last.order_by.by) \/ DocLess(b, a, last.order_by.by)

\* the result of the last find asked again with the same filter and order_by
\* and neither limit nor offset
Unpaged ==
    CHOOSE s \in BackendStreamWindow(Matched, [order |-> last.order_by.by,
                                               limited |-> FALSE, limit |-> 0,
                                               offset |-> 0]) : TRUE

\* s[M : M + N] as Python slices a list, an absent N or M left open
Slice(s, M, N) ==
    LET from == IF M = NoNumber THEN 0 ELSE M
        upto == IF N = NoNumber \/ from + N > Len(s) THEN Len(s) ELSE from + N
    IN  IF from >= upto THEN <<>> ELSE [n \in 1..(upto - from) |-> s[from + n]]

\* C12: under a total order_by, find(filter, order_by, limit=N, offset=M)
\* returns exactly the rows M .. M+N-1 of find(filter, order_by): limit alone
\* the first N rows, offset alone the rows from position M on.
C12_WindowIsSliceOfOrderedResult ==
    (last.op = "find" /\ last.outcome = "ok" /\ TotalOrder)
    => LET page == Slice(Unpaged, last.offset, last.limit)
       IN  /\ Len(last.found) = Len(page)
           /\ \A n \in 1..Len(page) :
                /\ last.found[n].vals["id"] = page[n].id
                /\ last.found[n].vals["stock"] = page[n].body["stock"]
                /\ last.found[n].vals["product_id"] = page[n].body["product_id"]

C12_Witness ==
    /\ last.op = "find" /\ last.outcome = "ok"
    /\ last.filter = <<>>
    /\ last.order_by = OrderBy(<< <<"stock", "DESCENDING">> >>)
    /\ last.limit = 2 /\ last.offset = 1
    /\ Len(last.found) = 2
    /\ last.found[1].vals["stock"] = IntVal(2)
    /\ last.found[2].vals["stock"] = IntVal(1)

\* the documents stored, before the last operation, at the path of the
\* instance it ran on
StoredBefore == At(last.before.docs, "p1", PathOf(last.cls), IdBefore)

\* the instance holds the document's values: every field the body holds under
\* its alias, and the identifier it was read under
HoldsValuesOf(i, d) ==
    /\ i.vals[i.cls.document_id] = d.id
    /\ \A f \in DOMAIN i.cls.fields \ {i.cls.document_id} :
         i.cls.fields[f].alias \in DOMAIN d.body
           => i.vals[f] = d.body[i.cls.fields[f].alias]

\* C13: reload re-fetches the instance by its own identifier and replaces its
\* field values in place with the stored ones, keeping the identifier; it
\* raises ModelNotFoundError when the instance has no identifier (no backend
\* call) or when no document exists at its identifier; whenever it fails the
\* instance is left as it was, and it never writes.
C13_ReloadInPlace ==
    (last.op = "reload" /\ ConfiguredFor(last.mode) /\ Resolvable(last.cls))
    => /\ docs = last.before.docs /\ staged = last.before.staged
       /\ inst = last.inst
       /\ IdBefore = None => last.outcome = "ModelNotFoundError" /\ last.calls = <<>>
       /\ (IdBefore # None /\ StoredBefore = {}) => last.outcome = "ModelNotFoundError"
       /\ (IdBefore # None /\ StoredBefore # {}) =>
            /\ last.outcome \in {"ok", "ValidationError"}
            /\ last.calls = <<Call("get", "p1", PathOf(last.cls), IdBefore)>>
       /\ last.outcome = "ok" =>
            /\ IdAfter = IdBefore
            /\ \A d \in StoredBefore : HoldsValuesOf(last.inst, d)
       /\ last.outcome # "ok" => last.inst = last.before.inst

\* C13 on the record types that are not sub-resources
C13_OnModels == last.cls.kind = "model" => C13_ReloadInPlace

\* C13 in the blocking mode
C13_Blocking == last.mode = "sync" => C13_ReloadInPlace

\* C14: delete on an instance whose identifier field is None fails with an
\* error and sends no delete request to the backend, with or without a
\* transaction; nothing is staged and the store is unchanged.
C14_DeleteWithoutIdFails ==
    (last.op = "delete" /\ IdBefore = None)
    => /\ last.outcome # "ok"
       /\ NothingDone

\* the part of C14 that the code keeps: the store is unchanged
C14_StoreUnchanged ==
    (last.op = "delete" /\ IdBefore = None) => docs = last.before.docs

\* C15: when a transaction is supplied to save, delete, reload, find, find_one,
\* get_by_doc_id or get_by_id, every request the operation sends is a read sent
\* with that transaction, every write is staged on it, and nothing is applied
\* to the store outside the transaction.
C15_TransactionThreaded ==
    (last.tx /\ last.op \in {"save", "delete", "reload", "find", "find_one",
                              "get_by_doc_id"})
    => /\ \A n \in 1..Len(last.calls) :
            /\ last.calls[n].transaction
            /\ last.calls[n].kind \in {"get", "stream"}
       /\ docs = last.before.docs
       /\ (last.op \in {"save", "delete"} /\ last.outcome = "ok") =>
            /\ last.calls = <<>>
            /\ Len(staged) = Len(last.before.staged) + 1
            /\ SubSeq(staged, 1, Len(last.before.staged)) = last.before.staged
            /\ staged[Len(staged)].kind = (IF last.op = "save" THEN "set" ELSE "delete")
       /\ (last.op \notin {"save", "delete"} \/ last.outcome # "ok") =>
            staged = last.before.staged
       /\ (last.op \in {"reload", "get_by_doc_id", "find"} /\ last.outcome = "ok") =>
            last.calls # <<>>

C15_Witness ==
    /\ last.op = "get_by_doc_id" /\ last.tx /\ last.outcome = "ok"
    /\ Len(last.calls) = 1 /\ last.calls[1].transaction
    /\ staged # <<>> /\ staged[1].kind = "set"
    /\ docs = last.before.docs

\* the record types of the last set-up run
LastModels == {last.models[n] : n \in 1..Len(last.models)}

\* the index path and the TTL field path of a record type under the prefix "t-"
PathOfIndexes(model) == IndexPath(STR_PROJ, STR_DEFAULT, STR_T \o model.collection)
PathOfTtl(model) == <<STR_T \o model.collection, model.ttl_field>>

\* the indexes a record type declares
Declared(model) == {model.composite_indexes[n] : n \in 1..Len(model.composite_indexes)}

\* every index definition a record type may declare
AllIndexes == {NameAscAgeDesc, AgeDescNameAsc, GroupNameAscAgeDesc}

\* a listed index without its implicit __name__ field
Stripped(raw) ==
    IndexDefinition(raw.query_scope, SubSeq(raw.fields, 1, Len(raw.fields) - 1))

\* the indexes that exist in the collection of exactly this path
ExistingFor(indexes, path) == {Stripped(raw) : raw \in {r \in indexes : r.parent = path}}

\* the number of requests of one kind the last run sent for a path (and an index)
Sent(kind, path, index) ==
    Cardinality({n \in 1..Len(last.calls) :
                   last.calls[n] = Request(kind, path, index)})

\* the last run was a whole run of set_up_composite_indexes with a working backend
IndexRunDone == last.op = "set_up_composite_indexes" /\ last.failing = {}

\* C16: for each record type that declares composite indexes,
\* set_up_composite_indexes sends exactly one creation request per declared
\* index that does not exist in the type's collection and none for one that
\* exists, indexes being equal iff scope and ordered (field, direction) tuple
\* are; the request carries the declared fields under the type's collection
\* path, the returned list holds one operation per request, and a type
\* without declared indexes causes no list and no create request.
C16_OneRequestPerMissingIndex ==
    IndexRunDone
    => /\ last.outcome = "ok"
       /\ \A model \in LastModels :
            /\ Sent("list_indexes", PathOfIndexes(model), NoIndex)
                 = (IF Declared(model) = {} THEN 0 ELSE 1)
            /\ \A index \in AllIndexes :
                 Sent("create_index", PathOfIndexes(model), index)
                   = (IF /\ index \in Declared(model)
                         /\ index \notin ExistingFor(last.before.admin.indexes,
                                                     PathOfIndexes(model))
                      THEN 1 ELSE 0)
       /\ Len(last.found)
            = Cardinality({n \in 1..Len(last.calls) : last.calls[n].kind = "create_index"})
       /\ \A n \in 1..Len(last.found) : last.found[n].kind = "create_index"

\* an index of another collection whose name begins with the path
Shadowing(indexes, path) ==
    {raw \in indexes : raw.parent # path /\ StartsWith(RawName(raw), path)}

\* C16 in the non-blocking implementation when no other collection's name
\* begins with the name of a collection of the run
C16_NonBlockingUnshadowed ==
    (last.mode = "async"
       /\ \A model \in LastModels : Shadowing(admin.indexes, PathOfIndexes(model)) = {})
    => C16_OneRequestPerMissingIndex

\* a listed index of another collection has the scope and fields of index
InAnotherCollection(indexes, path, index) ==
    \E raw \in indexes : raw.parent # path /\ Stripped(raw) = index

\* C17: a listed index that belongs to another collection than the record
\* type's is never taken for an existing index of the type: a declared index
\* with the same scope and fields is still created in the type's collection,
\* whatever the other collection is called.
C17_OtherCollectionsIgnored ==
    IndexRunDone
    => \A model \in LastModels : \A index \in Declared(model) :
         (/\ InAnotherCollection(last.before.admin.indexes \cup admin.indexes,
                                 PathOfIndexes(model), index)
          /\ index \notin ExistingFor(last.before.admin.indexes, PathOfIndexes(model)))
         => Sent("create_index", PathOfIndexes(model), index) = 1

\* C17 in the non-blocking implementation for other collections whose name
\* does not begin with the name of the type's collection
C17_NonBlockingUnrelatedName ==
    (IndexRunDone /\ last.mode = "async")
    => \A model \in LastModels : \A index \in Declared(model) :
         (/\ InAnotherCollection(last.before.admin.indexes \cup admin.indexes,
                                 PathOfIndexes(model), index)
          /\ Shadowing(admin.indexes, PathOfIndexes(model)) = {}
          /\ index \notin ExistingFor(last.before.admin.indexes, PathOfIndexes(model)))
         => Sent("create_index", PathOfIndexes(model), index) = 1

\* set_up_composite_indexes run again on the backend the last run left
SecondIndexRun(rank) ==
    SetUpCompositeIndexes(last.mode, last.models, Run("ok", admin, <<>>, <<>>),
                          STR_PROJ, STR_DEFAULT, {}, rank)

\* C18: set_up_composite_indexes run a second time with the same record types,
\* the backend listing the indexes the first run created with their implicit
\* __name__ field, sends no creation request and returns an empty list.
C18_SecondRunCreatesNothing ==
    IndexRunDone
    => \A rank \in Ranks :
         /\ SecondIndexRun(rank).outcome = "ok"
         /\ \A n \in 1..Len(SecondIndexRun(rank).requests) :
              SecondIndexRun(rank).requests[n].kind # "create_index"
         /\ Returned(SecondIndexRun(rank)) = <<>>
         /\ SecondIndexRun(rank).admin = admin

\* C18 in the non-blocking implementation
C18_NonBlocking == last.mode = "async" => C18_SecondRunCreatesNothing

\* set_up_ttl_policies run again on the backend the last run left
SecondTtlRun == SetUpTtlPolicies(last.mode, last.models, Run("ok", admin, <<>>, <<>>), {})

\* C19: for each record type with an expiring field set_up_ttl_policies sends
\* exactly one update request, setting the state to creating, and returns one
\* operation when the state it observes is unspecified; when the state is
\* creating, active or needs-repair it sends no update, returns no operation
\* and raises nothing, so the state stays as it is; a run that follows an
\* update sends no update and returns nothing.
C19_TtlUpdatedOnlyWhenUnspecified ==
    (last.op = "set_up_ttl_policies" /\ last.failing = {})
    => /\ last.outcome = "ok"
       /\ \A model \in LastModels :
            IF model.ttl_field = NoField
            THEN /\ \A n \in 1..Len(last.calls) :
                      last.calls[n].path[1] # STR_T \o model.collection
            ELSE LET was == FieldState(last.before.admin.ttl, PathOfTtl(model))
                 IN  /\ Sent("get_field", PathOfTtl(model), NoIndex) = 1
                     /\ Sent("update_field", PathOfTtl(model), NoIndex)
                          = (IF was = "STATE_UNSPECIFIED" THEN 1 ELSE 0)
                     /\ FieldState(admin.ttl, PathOfTtl(model))
                          = (IF was = "STATE_UNSPECIFIED" THEN "CREATING" ELSE was)
       /\ Len(last.found)
            = Cardinality({model \in LastModels :
                             /\ model.ttl_field # NoField
                             /\ FieldState(last.before.admin.ttl, PathOfTtl(model))
                                  = "STATE_UNSPECIFIED"})
       /\ \A n \in 1..Len(last.found) : last.found[n].kind = "update_field"
       /\ SecondTtlRun.outcome = "ok"
       /\ Returned(SecondTtlRun) = <<>>
       /\ SecondTtlRun.admin = admin

C19_Witness ==
    /\ last.op = "set_up_ttl_policies" /\ last.outcome = "ok"
    /\ last.models = <<ExpiringModel, ModelWithIndexes2>>
    /\ FieldState(last.before.admin.ttl, PathOfTtl(ExpiringModel)) = "NEEDS_REPAIR"
    /\ FieldState(admin.ttl, PathOfTtl(ExpiringModel)) = "NEEDS_REPAIR"
    /\ FieldState(last.before.admin.ttl, PathOfTtl(ModelWithIndexes2)) = "STATE_UNSPECIFIED"
    /\ FieldState(admin.ttl, PathOfTtl(ModelWithIndexes2)) = "CREATING"
    /\ last.found = <<Request("update_field", PathOfTtl(ModelWithIndexes2), NoIndex)>>

\* the record types of the last run that the run has work for
Concerned ==
    {model \in LastModels :
        \/ /\ last.op \in {"set_up_composite_indexes",
                           "set_up_composite_indexes_and_ttl_policies"}
           /\ Declared(model) # {}
        \/ /\ last.op \in {"set_up_ttl_policies",
                           "set_up_composite_indexes_and_ttl_policies"}
           /\ model.ttl_field # NoField}

\* the backend failed for a record type of the last run, and not for all
FailedForOne ==
    /\ last.op \in {"set_up_composite_indexes", "set_up_ttl_policies",
                    "set_up_composite_indexes_and_ttl_policies"}
    /\ \E model \in Concerned : model.collection \in last.failing
    /\ \E model \in Concerned : model.collection \notin last.failing

\* the last run sent a request for the record type
Processed(model) ==
    \E n \in 1..Len(last.calls) :
        \/ last.calls[n].path = PathOfIndexes(model)
        \/ last.calls[n].kind \in {"get_field", "update_field"}
             /\ last.calls[n].path[1] = STR_T \o model.collection

\* C20: when the backend fails while one record type is processed, the run
\* goes on with the remaining record types and returns the operations of the
\* types that succeeded; the failure of one type does not abort the batch.
C20_FailureDoesNotAbort ==
    FailedForOne
    => /\ last.outcome = "ok"
       /\ \A model \in Concerned : Processed(model)
       /\ Len(last.found)
            = Cardinality({n \in 1..Len(last.calls) :
                             last.calls[n].kind \in {"create_index", "update_field"}})

\* what the code does instead: the exception of the failing request ends the
\* run, which returns nothing and sends no further request
C20_FailureAborts ==
    (FailedForOne /\ last.outcome # "TypeError")
    => /\ last.outcome = "GoogleAPICallError"
       /\ last.found = <<>>
       /\ last.calls[Len(last.calls)].kind \in {"list_indexes", "get_field"}

\* the operations that address a collection of the store
StorageOps ==
    {"save", "find", "find_one", "get_by_doc_id", "reload", "delete",
     "truncate_collection"}

\* the connection handle of configuration n that an implementation uses
HandleOf(reg, mode, n) ==
    IF mode = "sync" THEN reg[n].client ELSE reg[n].async_client

\* every request of the last operation went to the collection of its record
\* type under the configuration the type is bound to, through that
\* configuration's handle
AddressedItsConfiguration ==
    \A k \in 1..Len(last.calls) :
        /\ last.cls.db_config \in DOMAIN registry
        /\ last.calls[k].col = registry[last.cls.db_config].prefix \o last.cls.collection
        /\ last.calls[k].db = HandleOf(registry, last.mode, last.cls.db_config)

\* C21: a record type bound to configuration name n through __db_config__
\* uses configuration n, its prefix and its connection handle, for every
\* operation: save, find, find_one, get_by_doc_id, reload, delete and
\* truncate_collection address the same prefixed collection in the same
\* database, never the collection or the client of another configuration.
C21_BoundConfigurationUsed ==
    last.op \in StorageOps => AddressedItsConfiguration

\* what holds instead: the non-blocking operations other than delete address
\* the configuration the type is bound to
C21_NonBlockingExceptDelete ==
    (last.op \in StorageOps \ {"delete"} /\ last.mode = "async")
    => AddressedItsConfiguration

\* a registry call that registers a configuration
Registers == last.op \in {"add", "configure"}

\* the entry a registration leaves: the arguments, the project normalised
Registered(item) == [item EXCEPT !.project = NormalizeProject(item.project)]

\* two entries that differ at most in handles constructed on first use
SameButHandles(a, b) == a.prefix = b.prefix /\ a.project = b.project

\* C22: the registry starts with a "(default)" entry; registering under a
\* name that is already registered replaces the earlier entry, in whichever
\* order two registrations take effect, so that get_config(name) returns the
\* configuration registered last under the name; the entries under other
\* names are unaffected, and looking up a name never registered fails.
C22_LastRegistrationWins ==
    /\ ops = 0 => DOMAIN registry = {STR_DEFAULT}
    /\ Registers
       => /\ GetConfig(last.id) = [outcome |-> "ok", item |-> Registered(last.item)]
          /\ DOMAIN registry = DOMAIN last.before.registry \cup {last.id}
          /\ \A n \in DOMAIN last.before.registry \ {last.id} :
                GetConfig(n).item = last.before.registry[n]
    /\ (last.op \notin {"none", "construct"} /\ ~Registers)
       => /\ DOMAIN registry = DOMAIN last.before.registry
          /\ \A n \in DOMAIN registry : SameButHandles(registry[n], last.before.registry[n])
    /\ last.op = "get_config"
       => /\ last.id \in DOMAIN registry
             => last.outcome = "ok" /\ last.item = registry[last.id]
          /\ last.id \notin DOMAIN registry => last.outcome = "KeyError"
          /\ last.id = STR_X => last.outcome = "KeyError"

\* "billing" is registered a second time, with other values
C22_Witness ==
    /\ last.op = "add" /\ last.id = STR_BILLING
    /\ STR_BILLING \in DOMAIN last.before.registry
    /\ last.before.registry[STR_BILLING].prefix # last.item.prefix
    /\ registry[STR_BILLING] = Registered(last.item)
    /\ registry[STR_DEFAULT] = last.before.registry[STR_DEFAULT]

\* the last step was a call on the registry or a storage operation
Called == last.op \notin {"none", "construct"}

\* the entry of name n held the handle h of the kind before the last call,
\* and holds it still
KeptHandle(n, kind) ==
    /\ n \in DOMAIN registry
    /\ HandleOf(registry, kind, n) = HandleOf(last.before.registry, kind, n)

\* the accessor of the kind, called for n
Accessor(kind, n) ==
    /\ last.op = (IF kind = "sync" THEN "get_client" ELSE "get_async_client")
    /\ last.id = n

\* C23 as stated: once a connection handle has been constructed on first use
\* for a configuration name, the name keeps that handle over every later
\* call, registry calls included; it is never replaced.
C23_HandleKeptForever ==
    Called
    => \A n \in DOMAIN last.before.registry, kind \in {"sync", "async"} :
          HandleOf(last.before.registry, kind, n) \in Projects => KeptHandle(n, kind)

\* C23 amended: a name keeps the handle it holds, and its accessor returns
\* that handle without constructing another, until the name is registered
\* again; an accessor constructs a handle only for an entry that holds none.
C23_HandleKeptUntilRegisteredAgain ==
    Called
    => \A n \in DOMAIN last.before.registry, kind \in {"sync", "async"} :
          /\ (HandleOf(last.before.registry, kind, n) # NoClient
                /\ ~(Registers /\ last.id = n))
             => /\ KeptHandle(n, kind)
                /\ Accessor(kind, n)
                   => /\ last.outcome = "ok"
                      /\ last.handle = HandleOf(last.before.registry, kind, n)
                      /\ ~last.constructed
          /\ (Accessor(kind, n) /\ last.constructed)
             => /\ HandleOf(last.before.registry, kind, n) = NoClient
                /\ HandleOf(registry, kind, n) = last.handle

\* get_client("billing") called again after it constructed the handle
C23_Witness ==
    /\ Accessor("sync", STR_BILLING)
    /\ STR_BILLING \in DOMAIN last.before.registry
    /\ last.before.registry[STR_BILLING].client \in Projects
    /\ last.handle = last.before.registry[STR_BILLING].client
    /\ ~last.constructed

\* the last call was a storage operation on a type whose configuration was
\* registered through configuration.add with a project and without clients,
\* and held no handle of the implementation's kind yet
FirstOnLazyConfiguration ==
    /\ last.op \in StorageOps
    /\ legacy.kind = "unset"
    /\ last.cls.db_config \in DOMAIN last.before.registry
    /\ last.before.registry[last.cls.db_config].project # NoProject
    /\ HandleOf(last.before.registry, last.mode, last.cls.db_config) = NoClient

\* the operation did not fail for want of a handle, and what it sent it sent
\* through a handle constructed from the entry's project
ConstructedAndProceeded ==
    /\ last.outcome \notin {"RuntimeError", "KeyError"}
    /\ last.calls # <<>>
       => HandleOf(registry, last.mode, last.cls.db_config)
            = last.before.registry[last.cls.db_config].project

\* C29: on a configuration registered through configuration.add with only
\* prefix, project and credentials, the first storage operation of any kind,
\* save included, constructs the connection handle and proceeds; none fails
\* because the handle was not constructed beforehand.
C29_FirstOperationConstructsHandle ==
    FirstOnLazyConfiguration => ConstructedAndProceeded

\* what holds instead: the non-blocking operations other than save do
C29_NonBlockingExceptSave ==
    (FirstOnLazyConfiguration /\ last.mode = "async" /\ last.op # "save")
    => ConstructedAndProceeded

\* the non-blocking save on such a configuration raises RuntimeError and
\* constructs nothing
C29_NonBlockingSaveFails ==
    (FirstOnLazyConfiguration /\ last.mode = "async" /\ last.op = "save")
    => /\ last.outcome = "RuntimeError"
       /\ registry = last.before.registry
       /\ docs = last.before.docs

\* what the caller observed of the last operation
LastObserved ==
    [outcome |-> last.outcome, calls |-> last.calls, docs |-> docs, staged |-> staged,
     inst |-> inst, rows |-> last.rows]

\* C24: the blocking and the non-blocking implementation apply identical
\* business rules: called with the same arguments in the same state, they
\* give the same outcome, send the same backend requests and leave the same
\* store, staged writes and instance.
C24_ImplementationsAgree ==
    last.op \in StorageOps => last.twin = LastObserved

\* what holds instead: they agree on every operation but delete, on record
\* types with a collection that are not sub-resource types
C24_AgreeOnPlainTypesExceptDelete ==
    (last.op \in StorageOps \ {"delete"} /\ last.cls.kind = "model"
       /\ last.cls.collection # None)
    => last.twin = LastObserved

\* the last call was a non-blocking save or reload that did not complete: it
\* was cancelled, its request failed, or it raised
EndedWithoutCompleting ==
    last.op \in {"save", "reload"} /\ last.mode = "async" /\ last.outcome # "ok"

\* C25: when the caller cancels a non-blocking save or reload suspended at its
\* backend request, or the request fails, the in-memory instance is left as
\* it was before the call: save sets the identifier only after the write
\* returned, reload replaces the fields only after the document was fetched
\* and validated.
C25_InstanceUntouchedUnlessCompleted ==
    /\ tasks # <<>> => inst = tasks[1].inst
    /\ EndedWithoutCompleting => inst = last.before.inst
    /\ (last.op = "save" /\ last.mode = "async" /\ last.outcome = "ok" /\ tasks = <<>>)
       => /\ DocumentIdOf(inst) = last.id
          /\ \E d \in docs : d.id = last.id /\ d.body = last.data
    /\ (last.op = "reload" /\ last.mode = "async" /\ last.outcome = "ok" /\ tasks = <<>>)
       => /\ DocumentIdOf(inst) = last.id
          /\ Validates(inst.cls, ToStorage(inst, FALSE, FALSE))

\* a save of an instance without identifier is cancelled after the backend
\* applied the write: the document exists, the instance has no identifier
C25_Witness ==
    /\ last.op = "save" /\ last.outcome = "CancelledError"
    /\ DocumentIdOf(last.before.inst) = None
    /\ inst = last.before.inst
    /\ docs # last.before.docs

\* the last call was a save outside a transaction that returned
Saved == last.op = "save" /\ last.outcome = "ok" /\ ~last.tx

\* the document the last save wrote, as the store holds it
SavedDocument ==
    BackendGet(docs, last.calls[1].db, last.calls[1].col, last.calls[1].id)

\* the keys under which the fields fs of the saved instance are stored
StoredKeys(fs) ==
    {last.cls.fields[f].alias : f \in fs \ {last.cls.document_id}}

\* C26: save replaces the stored document with exactly that call's payload and
\* never merges: after save(exclude_none=True) the document holds only the
\* fields that are not None, after save(exclude_unset=True) only the fields
\* explicitly set, after a plain save() all fields; a field stored earlier
\* survives only as part of the new payload.
C26_SaveReplacesDocument ==
    Saved
    => /\ Len(last.calls) = 1
       /\ SavedDocument.exists
       /\ SavedDocument.data = last.data
       /\ DOMAIN SavedDocument.data
            = StoredKeys({f \in FieldNames(last.cls) :
                            /\ last.exclude_unset => f \in last.before.inst.fset
                            /\ last.exclude_none => last.before.inst.vals[f] # None})
       /\ \A f \in FieldNames(last.cls) :
             last.cls.fields[f].alias \in DOMAIN SavedDocument.data
             => SavedDocument.data[last.cls.fields[f].alias] = last.before.inst.vals[f]

\* a save with exclude_none over a document that held more fields
C26_Witness ==
    /\ Saved /\ last.exclude_none
    /\ \E d \in last.before.docs :
          /\ d.db = last.calls[1].db /\ d.col = last.calls[1].col
          /\ d.id = last.calls[1].id
          /\ DOMAIN d.body \ DOMAIN SavedDocument.data # {}

\* the collection path of UserStats bound to the parent of the last model_for
PathForParent ==
    STR_USERS \o <<SLASH>> \o (IF last.id = None THEN STR_NONE ELSE last.id) \o STR_STATS

\* the last operation ran on a bound sub-resource type
OnBoundType ==
    last.op \in StorageOps /\ last.cls.kind = "submodel" /\ last.cls.collection # None

\* the documents stored through the type the last operation ran on
StoredThroughType == {d \in docs : d.col = STR_T \o last.cls.collection}

\* model_for returned a type whose path is the template with the parent's
\* values, and left the type it was called on as it was
BindingIsNewType ==
    last.op = "model_for"
    => /\ last.outcome = "ok"
       /\ last.cls.collection = PathForParent
       /\ last.models = <<UserStats>>
       /\ last.cls.fields = UserStats.fields

\* the type as declared rejects every storage operation
UnboundRejects ==
    (last.op \in StorageOps /\ last.cls = UserStats)
    => /\ last.outcome # "ok"
       /\ last.calls = <<>>
       /\ docs = last.before.docs

\* what is saved through a bound type is stored under its path
SavedUnderPath ==
    (OnBoundType /\ last.op = "save")
    => /\ last.outcome = "ok"
       /\ ~last.tx => \E d \in StoredThroughType : d.id = DocumentIdOf(inst)

\* get and find on a bound type read the documents stored through the type
\* bound to the same parent, and no others
ReadsOwnDocuments ==
    /\ (OnBoundType /\ last.op = "find")
       => /\ last.outcome = "ok"
          /\ last.rows = StoredThroughType
          /\ Len(last.found) = Cardinality(StoredThroughType)
    /\ (OnBoundType /\ last.op = "get_by_doc_id" /\ ValidateDocumentId(last.id) = "ok")
       => IF \E d \in StoredThroughType : d.id = last.id
          THEN /\ last.outcome = "ok"
               /\ last.rows = {d \in StoredThroughType : d.id = last.id}
          ELSE last.outcome = "ModelNotFoundError"

\* C27: model_for(parent) returns a new record type whose collection path is
\* the template with every {field} placeholder replaced by the parent's
\* value; the un-bound type stays un-bound and rejects storage operations;
\* documents saved through the type bound to a parent are read back by get
\* and find on the type bound to that parent and never on a type bound to
\* another.
C27_BoundTypesIsolated ==
    BindingIsNewType /\ UnboundRejects /\ SavedUnderPath /\ ReadsOwnDocuments

\* what holds instead: the binding and the saves in both implementations, the
\* reads in the blocking one
C27_BindingAndBlockingReads ==
    /\ BindingIsNewType /\ UnboundRejects /\ SavedUnderPath
    /\ last.mode # "async" => ReadsOwnDocuments

\* the non-blocking reads on a bound type raise TypeError
C27_NonBlockingReadsFail ==
    (OnBoundType /\ last.mode = "async" /\ last.op \in {"find", "get_by_doc_id"}
       /\ (last.op = "get_by_doc_id" => ValidateDocumentId(last.id) = "ok"))
    => last.outcome = "TypeError" /\ last.calls = <<>>

\* a blocking find on the type bound to one parent returns nothing while a
\* document is stored through the type bound to another
C27_BlockingWitness ==
    /\ OnBoundType /\ last.op = "find" /\ last.mode = "sync"
    /\ last.rows = {} /\ docs # {}

\* the profiles the store held when the last truncate_collection was called
ProfilesBefore ==
    BackendStream(last.before.docs, "p1", STR_T \o Profile.collection)

\* truncate_collection returned
Truncated == last.op = "truncate_collection" /\ tasks = <<>>

\* a truncate_collection that returned has deleted every document of the
\* collection and no other, and returned their number; a following find
\* returns nothing
TruncatedAll ==
    Truncated
    => /\ last.outcome = "ok"
       /\ docs = last.before.docs \ ProfilesBefore
       /\ StoredProduct \in docs
       /\ last.returned = Cardinality(ProfilesBefore)
       /\ (IF last.mode = "sync" THEN Find(Profile, <<>>)
           ELSE AsyncFind(Profile, <<>>)).rows = {}

\* while the call runs, what it has counted and what the collection still
\* holds are the documents the collection held
CountsDeleted ==
    (tasks # <<>> /\ tasks[1].op = "truncate_collection")
    => /\ tasks[1].count + Cardinality(BackendStream(docs, tasks[1].db, tasks[1].col))
            = Cardinality(BackendStream(tasks[1].docs, tasks[1].db, tasks[1].col))
       /\ StoredProduct \in docs

\* C28: truncate_collection on a collection of n >= 0 documents, without a
\* concurrent writer and with any batch_size >= 1, terminates, deletes every
\* document of the collection and none of another collection, and returns n,
\* also when n is a multiple of batch_size.
C28_TruncateTerminatesAndDeletesAll ==
    /\ [](TruncatedAll /\ CountsDeleted)
    /\ (tasks # <<>>) ~> Truncated

\* a collection of twice batch_size documents has been truncated
C28_Witness ==
    /\ Truncated
    /\ last.limit = 2
    /\ last.returned = 2 * last.limit
    /\ Cardinality(ProfilesBefore) = last.returned

(* Two set-up runs of one record type, interleaved at their awaits *)

\* how often the backend may move a TTL state while the two runs execute
MaxRaceMoves == 2

\* a non-blocking set-up run suspended at an await: what it sets up, where it
\* stands, what its read returned, what the other run had requested by then,
\* the indexes still to create and the requests it has sent
SetUp(kind, model, pc, seen, known, todo, requests) ==
    [kind |-> kind, model |-> model, pc |-> pc, seen |-> seen, known |-> known,
     todo |-> todo, requests |-> requests]

\* the requests of a run that change the backend
Acting(requests) ==
    SelectSeq(requests, LAMBDA q : q.kind \in {"update_field", "create_index"})

\* the other of the two runs
Other(r) == 3 - r

\* client.field_path(..., collection=model.get_collection_name(), field=model.__ttl_field__)
RaceFieldPath(model) ==
    <<ClassGetCollectionName("async", model).name, model.ttl_field>>

\* f"projects/{project}/databases/{database}/collectionGroups/{collection_group}"
RaceIndexPath(model) ==
    IndexPath(STR_PROJ, STR_DEFAULT, CollectionGroup("async", model).name)

\* two runs are started for one record type that declares what they set up
InitRace ==
    /\ legacy = ConfigureLegacy("async", "p1", STR_T)
    /\ registry = ConfigureRegistry(InitialRegistry, "async", "p1", STR_T)
    /\ docs = {}
    /\ staged = <<>>
    /\ inst = NoInst
    /\ ops = 0
    /\ last = NoOp
    /\ pin = <<>>
    /\ pout = "none"
    /\ \E indexes \in
            { {},
              BackendCreateIndex({}, IndexPath(STR_PROJ, STR_DEFAULT,
                                               STR_T \o STR_MODEL_WITH_INDEXES),
                                 NameAscAgeDesc) },
          state \in {"STATE_UNSPECIFIED", "CREATING", "ACTIVE", "NEEDS_REPAIR"},
          expiring \in {ExpiringModel, ModelWithIndexes2} :
         admin = [indexes |-> indexes,
                  ttl |-> BackendUpdateField(<<>>, RaceFieldPath(expiring), state)]
    /\ \E kind \in {"ttl", "indexes"},
          model \in {ExpiringModel, ModelWithIndexes, ModelWithIndexes2, AnotherModel} :
         /\ kind = "ttl" => model.ttl_field # NoField
         /\ kind = "indexes" => model.composite_indexes # <<>>
         /\ tasks = [r \in 1..2 |-> SetUp(kind, model, "start", {}, {}, {}, <<>>)]

\* field_obj = await client.get_field({"name": path})
RaceGetField ==
  \E r \in 1..2 :
    /\ tasks[r].kind = "ttl" /\ tasks[r].pc = "start"
    /\ LET path == RaceFieldPath(tasks[r].model)
       IN  tasks' = [tasks EXCEPT ![r] =
                       [@ EXCEPT !.pc = "read",
                                 !.seen = {FieldState(admin.ttl, path)},
                                 !.known = Range(Acting(tasks[Other(r)].requests)),
                                 !.requests = Append(@, Request("get_field", path, NoIndex))]]
    /\ UNCHANGED <<legacy, registry, docs, staged, inst, ops, last, pin, pout, admin>>

\* if field_obj.ttl_config.state == STATE_UNSPECIFIED:
\*     operation = await client.update_field({"field": field_obj})
RaceUpdateField ==
  \E r \in 1..2 :
    /\ tasks[r].kind = "ttl" /\ tasks[r].pc = "read"
    /\ LET path == RaceFieldPath(tasks[r].model)
       IN  IF tasks[r].seen = {"STATE_UNSPECIFIED"}
           THEN /\ admin' = [admin EXCEPT !.ttl = BackendUpdateField(@, path, "CREATING")]
                /\ tasks' = [tasks EXCEPT ![r] =
                               [@ EXCEPT !.pc = "done",
                                         !.requests =
                                            Append(@, Request("update_field", path, NoIndex))]]
           ELSE /\ admin' = admin
                /\ tasks' = [tasks EXCEPT ![r].pc = "done"]
    /\ UNCHANGED <<legacy, registry, docs, staged, inst, ops, last, pin, pout>>

\* indexes_in_db = await get_existing_indexes(client, path=path)
\* new_indexes = model_indexes.difference(indexes_in_db)
RaceListIndexes ==
  \E r \in 1..2 :
    /\ tasks[r].kind = "indexes" /\ tasks[r].pc = "start"
    /\ LET model == tasks[r].model
           path == RaceIndexPath(model)
           indexes_in_db == GetExistingIndexes(admin.indexes, path)
           model_indexes == {model.composite_indexes[n] :
                               n \in 1..Len(model.composite_indexes)}
           new_indexes == model_indexes \ indexes_in_db
       IN  tasks' = [tasks EXCEPT ![r] =
                       [@ EXCEPT !.pc = IF new_indexes = {} THEN "done" ELSE "read",
                                 !.seen = indexes_in_db,
                                 !.known = Range(Acting(tasks[Other(r)].requests)),
                                 !.todo = new_indexes,
                                 !.requests = Append(@, Request("list_indexes", path, NoIndex))]]
    /\ UNCHANGED <<legacy, registry, docs, staged, inst, ops, last, pin, pout, admin>>

\* for index in new_indexes: operation = await create_composite_index(client, index, path)
RaceCreateIndex ==
  \E r \in 1..2 :
    /\ tasks[r].kind = "indexes" /\ tasks[r].pc = "read"
    /\ \E index \in tasks[r].todo :
         LET path == RaceIndexPath(tasks[r].model)
         IN  /\ admin' = [admin EXCEPT !.indexes = BackendCreateIndex(@, path, index)]
             /\ tasks' = [tasks EXCEPT ![r] =
                            [@ EXCEPT !.pc = IF tasks[r].todo = {index} THEN "done" ELSE "read",
                                      !.todo = @ \ {index},
                                      !.requests =
                                         Append(@, Request("create_index", path, index))]]
    /\ UNCHANGED <<legacy, registry, docs, staged, inst, ops, last, pin, pout>>

\* the backend finishes creating a policy, or finds one in need of repair
RaceBackendMovesTtl ==
    /\ ops < MaxRaceMoves
    /\ ops' = ops + 1
    /\ \E path \in DOMAIN admin.ttl, state \in {"ACTIVE", "NEEDS_REPAIR"} :
         /\ \/ admin.ttl[path] = "CREATING"
            \/ admin.ttl[path] = "ACTIVE" /\ state = "NEEDS_REPAIR"
         /\ admin' = [admin EXCEPT !.ttl[path] = state]
    /\ UNCHANGED <<legacy, registry, docs, staged, inst, last, pin, pout, tasks>>

NextRace ==
    \/ RaceGetField
    \/ RaceUpdateField
    \/ RaceListIndexes
    \/ RaceCreateIndex
    \/ RaceBackendMovesTtl

SpecRace == InitRace /\ [][NextRace]_vars

\* the requests of the two runs that change the backend, with their number
RaceSent(q) ==
    Len(SelectSeq(tasks[1].requests, LAMBDA s : s = q))
      + Len(SelectSeq(tasks[2].requests, LAMBDA s : s = q))

RaceActing == Range(Acting(tasks[1].requests)) \cup Range(Acting(tasks[2].requests))

\* C30: over every interleaving of two set-up runs of one record type, at most
\* one update-to-creating request is sent per (collection, expiring field) and
\* at most one creation request per missing declared composite index
C30_AtMostOneRequestEach == \A q \in RaceActing : RaceSent(q) <= 1

\* C30, what holds: a run sends no request that the other run had sent before
\* the run read the backend's state, and sends each of its requests once
C30_NoRequestForWhatWasSentBeforeReading ==
    \A r \in 1..2 :
      /\ Range(Acting(tasks[r].requests)) \cap tasks[r].known = {}
      /\ \A q \in Range(Acting(tasks[r].requests)) :
           Len(SelectSeq(tasks[r].requests, LAMBDA s : s = q)) = 1

\* C30: both runs have read before either acted, and both have acted
C30_BothRead ==
    /\ tasks[1].pc = "done" /\ tasks[2].pc = "done"
    /\ tasks[1].known = {} /\ tasks[2].known = {}
    /\ Acting(tasks[1].requests) # <<>> /\ Acting(tasks[2].requests) # <<>>

====
